---------------------------- MODULE Spec2Model ----------------------------
(***************************************************************************)
(* Ledger-and-risk engine of the lending pool (contracts/LendingPool.ts,   *)
(* the variant with the supply index, the reentrancy guard, the treasury   *)
(* reserves and the flash loans).                                          *)
(*                                                                         *)
(* Units.  TLC integers are 32 bits wide, so the 1e18 fixed-point unit of  *)
(* the contract and its 31,557,600-second year cannot be written down.     *)
(* The model keeps every formula of the source and changes the units only: *)
(* PRICE_PRECISION is 10 (1.0 = 10, 1.1 = 11, 0.5 = 5), and the initial    *)
(* supply index is 10000, and a year lasts SECONDS_PER_YEAR = 2 seconds.   *)
(* Basis points, the millisecond clock and its /1000 truncation, and the   *)
(* 32-bit wrap of the supply-rate product are as in the source.            *)
(*                                                                         *)
(* An assert that fails aborts the whole operation and the host rolls the  *)
(* storage back: a handler is a function from the ledger to a result       *)
(* [ok, st], and an action commits st only when ok.                        *)
(***************************************************************************)
EXTENDS Integers, Naturals, FiniteSets, Sequences, TLC

\* ------------------------------------------------------------------------
\* Bounds of the model
\* ------------------------------------------------------------------------
MaxTime == 3000
MaxSupply == 1000
MaxReserves == 2

Users == {"u1", "u2"}
Admin == "admin"
Callers == Users \cup {Admin}
Assets == {"A", "B"}

\* The calls the model makes: <<caller, token, amount>>
DepositCalls == {<<"u1", "A", 1000>>, <<"u2", "B", 1000>>}
WithdrawCalls == {<<"u1", "A", 400>>}
EmergencyCalls == {<<"u2", "B", 1000>>}
BorrowCalls == {<<"u1", "B", 600>>, <<"u1", "B", 750>>}
RepayCalls == {<<"u1", "B", 300>>, <<"u1", "B", 1000>>}
\* <<liquidator, borrower, collateralToken, debtToken, debtAmount>>
LiquidateCalls == {<<"u2", "u1", "A", "B", 300>>}
\* <<caller, receiver, token, amount>>
FlashCalls == {<<"u2", "admin", "B", 1000>>, <<"u2", "u2", "B", 1000>>}
CallbackRepayments == {1000, 2000, 2001}
TreasuryCalls == {<<"admin", "B", 1>>, <<"admin", "B", 3>>, <<"u2", "B", 1>>}
\* <<token, price>>
PriceCalls == {<<"A", 5>>, <<"A", 10>>, <<"B", 10>>}
TimeSteps == {2000}

\* ------------------------------------------------------------------------
\* Program constants
\* ------------------------------------------------------------------------
PRICE_PRECISION == 10
SECONDS_PER_YEAR == 2
MAX_ASSETS_PER_USER == 10
InitialSupplyIndex == 10000
StartTime == 1000

\* token.decimals() of the two tokens
tokenDecimals(tokenAddress) == 0

Pow10(n) == IF n = 0 THEN 1 ELSE IF n = 1 THEN 10 ELSE 100

\* ------------------------------------------------------------------------
\* SafeMath
\* ------------------------------------------------------------------------
Min(a, b) == IF a < b THEN a ELSE b

\* SafeMath.sub asserts b <= a
subOK(a, b) == b <= a

\* SafeMath.div asserts b > 0
divOK(b) == b > 0

mulBP(value, basisPoints) ==
  IF value = 0 \/ basisPoints = 0 THEN 0
  ELSE (value * basisPoints) \div 10000

\* ------------------------------------------------------------------------
\* InterestRateModel
\* ------------------------------------------------------------------------
calculateUtilization(totalBorrows, totalDeposits) ==
  IF totalDeposits = 0 THEN 0
  ELSE LET utilization == (totalBorrows * 10000) \div totalDeposits
       IN IF utilization > 10000 THEN 10000 ELSE utilization

\* The rate above the optimal utilization without slope1
calculateBorrowRate_NoKink(utilizationRate, baseRate, optimalUtilization, slope1, slope2) ==
  IF utilizationRate = 0 THEN baseRate
  ELSE IF utilizationRate <= optimalUtilization
       THEN baseRate + ((utilizationRate * slope1) \div optimalUtilization)
       ELSE baseRate
            + (((utilizationRate - optimalUtilization) * slope2)
                 \div (10000 - optimalUtilization))

\* All operands are u32; with validated parameters and a utilization of at
\* most 10000 no product exceeds 10^8, so nothing wraps
calculateBorrowRate(utilizationRate, baseRate, optimalUtilization, slope1, slope2) ==
  IF utilizationRate = 0 THEN baseRate
  ELSE IF utilizationRate <= optimalUtilization
       THEN baseRate + ((utilizationRate * slope1) \div optimalUtilization)
       ELSE baseRate + slope1
            + (((utilizationRate - optimalUtilization) * slope2)
                 \div (10000 - optimalUtilization))

calculateAccruedInterest(principal, rate, timeDelta) ==
  IF principal = 0 \/ rate = 0 \/ timeDelta = 0 THEN 0
  ELSE LET timeInSeconds == timeDelta \div 1000
       IN (principal * rate * timeInSeconds) \div (10000 * SECONDS_PER_YEAR)

calculateBalanceWithInterest(principal, rate, lastUpdateTime, currentTime) ==
  IF currentTime <= lastUpdateTime THEN principal
  ELSE principal + calculateAccruedInterest(principal, rate, currentTime - lastUpdateTime)

\* (borrowRate * utilization * supplyRateFactor) / (10000 * 10000) in u32:
\* the product wraps modulo 2^32 before the division.  The 32-bit value is
\* kept as two 16-bit limbs so that no intermediate exceeds 2^31 - 1.
supplyRateU32(borrowRate, utilization, supplyRateFactor) ==
  LET p == borrowRate * utilization
      ph == p \div 65536
      pl == p % 65536
      lowprod == pl * supplyRateFactor
      hi == (((ph * supplyRateFactor) % 65536) + (lowprod \div 65536)) % 65536
      lo == lowprod % 65536
      D == 100000000
  IN IF hi < 32768
     THEN (hi * 65536 + lo) \div D
     ELSE LET rest == (hi - 32768) * 65536 + lo
          IN 21 + (rest \div D) + ((47483648 + (rest % D)) \div D)

\* ------------------------------------------------------------------------
\* u256 arithmetic (as-bignum) on a word of U256Max + 1 values, and the two
\* SafeMath libraries built on it.  A call returns [ok, value]; ok = FALSE is
\* a failed assert.
\* ------------------------------------------------------------------------
U256Max == 15
U64Max == 3

u256_add(a, b) == (a + b) % (U256Max + 1)
u256_sub(a, b) == (a - b + U256Max + 1) % (U256Max + 1)
u256_mul(a, b) == (a * b) % (U256Max + 1)
u256_div(a, b) == a \div b
u256_rem(a, b) == a % b
toU64(a) == a % (U64Max + 1)

MathFail == [ok |-> FALSE, value |-> 0]
MathValue(v) == [ok |-> TRUE, value |-> v]

\* SafeMath, the library with the u64 fast path in div
SafeMath_add(a, b) ==
  LET result == u256_add(a, b)
  IN IF ~(result >= a) THEN MathFail ELSE MathValue(result)

SafeMath_sub(a, b) ==
  IF ~(b <= a) THEN MathFail ELSE MathValue(u256_sub(a, b))

SafeMath_mul(a, b) ==
  IF a = 0 THEN MathValue(0) ELSE MathValue(u256_mul(a, b))

RECURSIVE subtractLoop(_, _, _)
subtractLoop(result, remainder, b) ==
  IF remainder >= b
  THEN subtractLoop(u256_add(result, 1), u256_sub(remainder, b), b)
  ELSE result

SafeMath_div(a, b) ==
  IF ~(b > 0) THEN MathFail
  ELSE IF a < b THEN MathValue(0)
  ELSE IF a = b THEN MathValue(1)
  ELSE IF a <= U64Max /\ b <= U64Max THEN MathValue(toU64(a) \div toU64(b))
  ELSE MathValue(subtractLoop(0, a, b))

SafeMath_mod(a, b) ==
  IF ~(b > 0) THEN MathFail
  ELSE LET quotient == SafeMath_div(a, b)
           product == SafeMath_mul(quotient.value, b)
       IN SafeMath_sub(a, product.value)

\* SafeMath, the library on the native u256 division
SafeMathNative_add(a, b) ==
  LET c == u256_add(a, b)
  IN IF ~(c >= a) THEN MathFail ELSE MathValue(c)

SafeMathNative_sub(a, b) ==
  IF ~(b <= a) THEN MathFail ELSE MathValue(u256_sub(a, b))

SafeMathNative_mul(a, b) ==
  IF a = 0 THEN MathValue(0)
  ELSE LET c == u256_mul(a, b)
       IN IF ~(u256_div(c, a) = b) THEN MathFail ELSE MathValue(c)

SafeMathNative_div(a, b) ==
  IF ~(b > 0) THEN MathFail ELSE MathValue(u256_div(a, b))

SafeMathNative_mod(a, b) ==
  IF b = 0 THEN MathFail ELSE MathValue(u256_rem(a, b))

MathOps == {"add", "sub", "mul", "div", "mod"}

SafeMathOf(op, a, b) ==
  CASE op = "add" -> SafeMath_add(a, b)
    [] op = "sub" -> SafeMath_sub(a, b)
    [] op = "mul" -> SafeMath_mul(a, b)
    [] op = "div" -> SafeMath_div(a, b)
    [] op = "mod" -> SafeMath_mod(a, b)

SafeMathNativeOf(op, a, b) ==
  CASE op = "add" -> SafeMathNative_add(a, b)
    [] op = "sub" -> SafeMathNative_sub(a, b)
    [] op = "mul" -> SafeMathNative_mul(a, b)
    [] op = "div" -> SafeMathNative_div(a, b)
    [] op = "mod" -> SafeMathNative_mod(a, b)


\* ------------------------------------------------------------------------
\* State: the contract's storage, the pool's token balances, the clock
\* ------------------------------------------------------------------------
VARIABLES
  owner,                 \* OWNER_KEY
  paused,                \* PAUSED_KEY
  reentrancyGuard,       \* REENTRANCY_GUARD_KEY
  params,                \* the u32 / bool parameters set by the constructor
  supportedAssets,       \* SupportedAssetsStorage
  assetPrice,            \* AssetPriceStorage (manual price, 0 = never set)
  assetPair,             \* asset_pair:<token> ("" = no pair configured)
  userCollateral,        \* UserCollateralStorage
  userDebt,              \* UserDebtStorage
  userLastUpdate,        \* UserLastUpdateStorage
  userSupplyIndex,       \* UserSupplyIndexStorage
  userAssets,            \* UserAssetsStorage (membership list)
  totalCollateral,       \* TotalCollateralStorage
  totalBorrows,          \* TotalBorrowsStorage
  supplyIndex,           \* SupplyIndexStorage
  supplyIndexLastUpdate, \* supply_index_last_update:<token>
  treasuryReserves,      \* TreasuryReservesStorage
  tokenBalance,          \* token.balanceOf(pool) of each token
  now,                   \* Context.timestamp()
  frame,                 \* the flash loan in progress, if any
  lastFlash,             \* how the flash loan that has just ended went
  calc                   \* the library call last evaluated, with its results

ledgerVars == <<owner, paused, reentrancyGuard, params, supportedAssets,
                assetPrice, assetPair, userCollateral, userDebt,
                userLastUpdate, userSupplyIndex, userAssets, totalCollateral,
                totalBorrows, supplyIndex, supplyIndexLastUpdate,
                treasuryReserves, tokenBalance>>

vars == <<owner, paused, reentrancyGuard, params, supportedAssets,
          assetPrice, assetPair, userCollateral, userDebt,
          userLastUpdate, userSupplyIndex, userAssets, totalCollateral,
          totalBorrows, supplyIndex, supplyIndexLastUpdate,
          treasuryReserves, tokenBalance, now, frame, lastFlash, calc>>

\* The storage as one value, as a handler reads and rewrites it
Cur ==
  [owner |-> owner, paused |-> paused, reentrancyGuard |-> reentrancyGuard,
   params |-> params, supportedAssets |-> supportedAssets,
   assetPrice |-> assetPrice, assetPair |-> assetPair,
   userCollateral |-> userCollateral, userDebt |-> userDebt,
   userLastUpdate |-> userLastUpdate, userSupplyIndex |-> userSupplyIndex,
   userAssets |-> userAssets, totalCollateral |-> totalCollateral,
   totalBorrows |-> totalBorrows, supplyIndex |-> supplyIndex,
   supplyIndexLastUpdate |-> supplyIndexLastUpdate,
   treasuryReserves |-> treasuryReserves, tokenBalance |-> tokenBalance]

Commit(L) ==
  /\ owner' = L.owner
  /\ paused' = L.paused
  /\ reentrancyGuard' = L.reentrancyGuard
  /\ params' = L.params
  /\ supportedAssets' = L.supportedAssets
  /\ assetPrice' = L.assetPrice
  /\ assetPair' = L.assetPair
  /\ userCollateral' = L.userCollateral
  /\ userDebt' = L.userDebt
  /\ userLastUpdate' = L.userLastUpdate
  /\ userSupplyIndex' = L.userSupplyIndex
  /\ userAssets' = L.userAssets
  /\ totalCollateral' = L.totalCollateral
  /\ totalBorrows' = L.totalBorrows
  /\ supplyIndex' = L.supplyIndex
  /\ supplyIndexLastUpdate' = L.supplyIndexLastUpdate
  /\ treasuryReserves' = L.treasuryReserves
  /\ tokenBalance' = L.tokenBalance

\* constructor(owner)
constructor(ownerAddress) ==
  [owner |-> ownerAddress, paused |-> FALSE, reentrancyGuard |-> FALSE,
   params |-> [baseRate |-> 200, optimalUtilization |-> 8000,
               slope1 |-> 400, slope2 |-> 6000,
               collateralFactor |-> 7500, liquidationThreshold |-> 8000,
               reserveFactor |-> 1000, closeFactor |-> 5000,
               liquidationBonusMin |-> 500, liquidationBonusMax |-> 1500,
               flashLoanFee |-> 9, flashLoanEnabled |-> TRUE,
               treasury |-> ownerAddress, twapPeriod |-> 300],
   supportedAssets |-> {},
   assetPrice |-> [a \in Assets |-> 0],
   assetPair |-> [a \in Assets |-> ""],
   userCollateral |-> [u \in Callers |-> [a \in Assets |-> 0]],
   userDebt |-> [u \in Callers |-> [a \in Assets |-> 0]],
   userLastUpdate |-> [u \in Callers |-> [a \in Assets |-> 0]],
   userSupplyIndex |-> [u \in Callers |-> [a \in Assets |-> InitialSupplyIndex]],
   userAssets |-> [u \in Callers |-> {}],
   totalCollateral |-> [a \in Assets |-> 0],
   totalBorrows |-> [a \in Assets |-> 0],
   supplyIndex |-> [a \in Assets |-> InitialSupplyIndex],
   supplyIndexLastUpdate |-> [a \in Assets |-> 0],
   treasuryReserves |-> [a \in Assets |-> 0],
   tokenBalance |-> [a \in Assets |-> 0]]

NoFrame == [active |-> FALSE]
NoOutcome == [op |-> "none"]
NoCalc == [op |-> "none"]

Init ==
  /\ owner = constructor(Admin).owner
  /\ paused = constructor(Admin).paused
  /\ reentrancyGuard = constructor(Admin).reentrancyGuard
  /\ params = constructor(Admin).params
  /\ supportedAssets = constructor(Admin).supportedAssets
  /\ assetPrice = constructor(Admin).assetPrice
  /\ assetPair = constructor(Admin).assetPair
  /\ userCollateral = constructor(Admin).userCollateral
  /\ userDebt = constructor(Admin).userDebt
  /\ userLastUpdate = constructor(Admin).userLastUpdate
  /\ userSupplyIndex = constructor(Admin).userSupplyIndex
  /\ userAssets = constructor(Admin).userAssets
  /\ totalCollateral = constructor(Admin).totalCollateral
  /\ totalBorrows = constructor(Admin).totalBorrows
  /\ supplyIndex = constructor(Admin).supplyIndex
  /\ supplyIndexLastUpdate = constructor(Admin).supplyIndexLastUpdate
  /\ treasuryReserves = constructor(Admin).treasuryReserves
  /\ tokenBalance = constructor(Admin).tokenBalance
  /\ now = StartTime
  /\ frame = NoFrame
  /\ lastFlash = NoOutcome
  /\ calc = NoCalc

Revert(L) == [ok |-> FALSE, st |-> L]
Done(L) == [ok |-> TRUE, st |-> L]

\* ------------------------------------------------------------------------
\* Guards
\* ------------------------------------------------------------------------
\* The owner check dropped
onlyOwner_Anyone(L, caller) == TRUE

\* assert(Context.caller().toString() == owner)
onlyOwner(L, caller) == caller = L.owner
whenNotPaused(L) == ~L.paused
whenPaused(L) == L.paused
nonReentrantStart(L) == ~L.reentrancyGuard
\* nonReentrantStart writes the flag once its assert has passed
nonReentrantLock(L) == [L EXCEPT !.reentrancyGuard = TRUE]

\* The release left out
nonReentrantEnd_Skip(L) == L

nonReentrantEnd(L) == [L EXCEPT !.reentrancyGuard = FALSE]

\* ------------------------------------------------------------------------
\* Token interface: a transfer out of the pool needs the balance
\* ------------------------------------------------------------------------
transferOK(L, tokenAddress, amount) == L.tokenBalance[tokenAddress] >= amount
transferOut(L, tokenAddress, amount) ==
  [L EXCEPT !.tokenBalance[tokenAddress] = @ - amount]
transferIn(L, tokenAddress, amount) ==
  [L EXCEPT !.tokenBalance[tokenAddress] = @ + amount]

\* ------------------------------------------------------------------------
\* Internal helpers of the pool
\* ------------------------------------------------------------------------
borrowRateOf(L, tokenAddress) ==
  calculateBorrowRate(
    calculateUtilization(L.totalBorrows[tokenAddress], L.totalCollateral[tokenAddress]),
    L.params.baseRate, L.params.optimalUtilization,
    L.params.slope1, L.params.slope2)

indexIncrease(currentIndex, supplyRate, timeDelta) ==
  (currentIndex * supplyRate * (timeDelta \div 1000)) \div (SECONDS_PER_YEAR * 10000)

\* The index overwritten with the increase instead of raised by it
_updateSupplyIndex_Overwrite(L, t, tokenAddress) ==
  LET lastUpdate == L.supplyIndexLastUpdate[tokenAddress]
      stamped == [L EXCEPT !.supplyIndexLastUpdate[tokenAddress] = t]
      utilization == calculateUtilization(L.totalBorrows[tokenAddress],
                                          L.totalCollateral[tokenAddress])
      supplyRate == supplyRateU32(borrowRateOf(L, tokenAddress), utilization,
                                  10000 - L.params.reserveFactor)
  IN IF t <= lastUpdate THEN L
     ELSE IF L.totalCollateral[tokenAddress] = 0 \/ L.totalBorrows[tokenAddress] = 0
          THEN stamped
     ELSE IF supplyRate = 0 THEN stamped
     ELSE [stamped EXCEPT !.supplyIndex[tokenAddress] =
             indexIncrease(@, supplyRate, t - lastUpdate)]

_updateSupplyIndex(L, t, tokenAddress) ==
  LET lastUpdate == L.supplyIndexLastUpdate[tokenAddress]
      stamped == [L EXCEPT !.supplyIndexLastUpdate[tokenAddress] = t]
      utilization == calculateUtilization(L.totalBorrows[tokenAddress],
                                          L.totalCollateral[tokenAddress])
      supplyRate == supplyRateU32(borrowRateOf(L, tokenAddress), utilization,
                                  10000 - L.params.reserveFactor)
  IN IF t <= lastUpdate THEN L
     ELSE IF L.totalCollateral[tokenAddress] = 0 \/ L.totalBorrows[tokenAddress] = 0
          THEN stamped
     ELSE IF supplyRate = 0 THEN stamped
     ELSE [stamped EXCEPT !.supplyIndex[tokenAddress] =
             @ + indexIncrease(@, supplyRate, t - lastUpdate)]

_calculateCurrentSupplyIndex(L, t, tokenAddress) ==
  LET lastUpdate == L.supplyIndexLastUpdate[tokenAddress]
      currentIndex == L.supplyIndex[tokenAddress]
      utilization == calculateUtilization(L.totalBorrows[tokenAddress],
                                          L.totalCollateral[tokenAddress])
      supplyRate == supplyRateU32(borrowRateOf(L, tokenAddress), utilization,
                                  10000 - L.params.reserveFactor)
  IN IF t <= lastUpdate THEN currentIndex
     ELSE IF L.totalCollateral[tokenAddress] = 0 \/ L.totalBorrows[tokenAddress] = 0
          THEN currentIndex
     ELSE IF supplyRate = 0 THEN currentIndex
     ELSE currentIndex + indexIncrease(currentIndex, supplyRate, t - lastUpdate)

\* getSupplyRate: the same product taken in u64, where it cannot wrap.  The
\* quotient by 10000 * 10000 is taken in two steps of 10000 so that no
\* intermediate exceeds 2^31 - 1.
getSupplyRate(L, tokenAddress) ==
  LET utilization == calculateUtilization(L.totalBorrows[tokenAddress],
                                          L.totalCollateral[tokenAddress])
      p == borrowRateOf(L, tokenAddress) * utilization
      supplyRateFactor == 10000 - L.params.reserveFactor
  IN (((p \div 10000) * supplyRateFactor)
        + (((p % 10000) * supplyRateFactor) \div 10000)) \div 10000

\* The accrual that leaves the user's last-update timestamp where it was
_accrueInterest_Unstamped(L, t, user, tokenAddress) ==
  LET currentDebt == L.userDebt[user][tokenAddress]
      lastUpdate == L.userLastUpdate[user][tokenAddress]
      newDebt == calculateBalanceWithInterest(currentDebt,
                   borrowRateOf(L, tokenAddress), lastUpdate, t)
      interestAccrued == newDebt - currentDebt
      protocolFee == IF L.params.reserveFactor > 0
                     THEN mulBP(interestAccrued, L.params.reserveFactor) ELSE 0
      L1 == IF interestAccrued > 0
            THEN [L EXCEPT !.treasuryReserves[tokenAddress] = @ + protocolFee,
                           !.totalBorrows[tokenAddress] = @ + interestAccrued]
            ELSE L
  IN IF currentDebt = 0 THEN L
     ELSE IF t <= lastUpdate THEN L
     ELSE [L1 EXCEPT !.userDebt[user][tokenAddress] = newDebt]

\* The accrual that leaves totalBorrows without the interest
_accrueInterest_DebtOnly(L, t, user, tokenAddress) ==
  LET currentDebt == L.userDebt[user][tokenAddress]
      lastUpdate == L.userLastUpdate[user][tokenAddress]
      newDebt == calculateBalanceWithInterest(currentDebt,
                   borrowRateOf(L, tokenAddress), lastUpdate, t)
  IN IF currentDebt = 0 THEN L
     ELSE IF t <= lastUpdate THEN L
     ELSE [L EXCEPT !.userDebt[user][tokenAddress] = newDebt,
                    !.userLastUpdate[user][tokenAddress] = t]

\* The accrual that stamps every user's timestamp for the token
_accrueInterest_StampAll(L, t, user, tokenAddress) ==
  LET currentDebt == L.userDebt[user][tokenAddress]
      lastUpdate == L.userLastUpdate[user][tokenAddress]
      newDebt == calculateBalanceWithInterest(currentDebt,
                   borrowRateOf(L, tokenAddress), lastUpdate, t)
      interestAccrued == newDebt - currentDebt
      protocolFee == IF L.params.reserveFactor > 0
                     THEN mulBP(interestAccrued, L.params.reserveFactor) ELSE 0
      L1 == IF interestAccrued > 0
            THEN [L EXCEPT !.treasuryReserves[tokenAddress] = @ + protocolFee,
                           !.totalBorrows[tokenAddress] = @ + interestAccrued]
            ELSE L
  IN IF currentDebt = 0 THEN L
     ELSE IF t <= lastUpdate THEN L
     ELSE [L1 EXCEPT !.userDebt[user][tokenAddress] = newDebt,
                     !.userLastUpdate =
                        [u \in Callers |-> [L.userLastUpdate[u] EXCEPT ![tokenAddress] = t]]]

_accrueInterest(L, t, user, tokenAddress) ==
  LET currentDebt == L.userDebt[user][tokenAddress]
      lastUpdate == L.userLastUpdate[user][tokenAddress]
      newDebt == calculateBalanceWithInterest(currentDebt,
                   borrowRateOf(L, tokenAddress), lastUpdate, t)
      interestAccrued == newDebt - currentDebt
      protocolFee == IF L.params.reserveFactor > 0
                     THEN mulBP(interestAccrued, L.params.reserveFactor) ELSE 0
      L1 == IF interestAccrued > 0
            THEN [L EXCEPT !.treasuryReserves[tokenAddress] = @ + protocolFee,
                           !.totalBorrows[tokenAddress] = @ + interestAccrued]
            ELSE L
  IN IF currentDebt = 0 THEN L
     ELSE IF t <= lastUpdate THEN L
     ELSE [L1 EXCEPT !.userDebt[user][tokenAddress] = newDebt,
                     !.userLastUpdate[user][tokenAddress] = t]


\* The Dusa pairs an asset can be given.  pairLive trades in one bin and
\* pairDead in another, and each has accumulated its bin id once a
\* millisecond for OracleAge milliseconds; the cumulative id of pairBroken
\* has started again from zero, so its older sample is above its newer one.
Pairs == {"pairDead", "pairLive", "pairBroken"}
OracleAge == 4000
LiveBinId == 2
DeadBinId == 1

\* IDusaPair.getOracleSampleFrom(timeDelta).cumulativeId
getOracleSampleFrom(pairAddress, timeDelta) ==
  IF pairAddress = "pairLive" THEN LiveBinId * (OracleAge - timeDelta)
  ELSE IF pairAddress = "pairDead" THEN DeadBinId * (OracleAge - timeDelta)
  ELSE timeDelta

\* BinHelper.calculateTWAP: sample1 is the earlier cumulative id
calculateTWAP(sample1, sample2, timeDelta) ==
  IF ~(timeDelta > 0) THEN [ok |-> FALSE, id |-> 0]
  ELSE IF ~(sample2 >= sample1) THEN [ok |-> FALSE, id |-> 0]
  ELSE [ok |-> TRUE, id |-> (sample2 - sample1) \div timeDelta]

\* BinHelper.toDecimal18(BinHelper.getPriceFromId(avgBinId, binStep)) for
\* the two bins of the model: 0.5 for the bin of pairLive, and a price that
\* rounds to zero for the bin of pairDead
priceOfBinId(avgBinId) == IF avgBinId = LiveBinId THEN 5 ELSE 0

\* The oracle branch of _getAssetPrice: the price derived from the pair's
\* two samples, or the failed assert of calculateTWAP
oraclePrice(pairAddress, twapPeriod) ==
  LET sample1 == getOracleSampleFrom(pairAddress, 0)
      sample2 == getOracleSampleFrom(pairAddress, twapPeriod)
      twap == calculateTWAP(sample2, sample1, twapPeriod)
  IN [ok |-> twap.ok, price |-> IF twap.ok THEN priceOfBinId(twap.id) ELSE 0]

\* The value _getAssetPrice returns, given the price derived from the pair
getAssetPriceValue(pairAddress, derived, storedPrice) ==
  IF pairAddress # "" /\ derived > 0 THEN derived
  ELSE IF storedPrice > 0 THEN storedPrice
  ELSE 0

\* _getAssetPrice returns: no pair is configured, or the reading of the
\* configured pair trips no assert
_getAssetPriceOK(L, tokenAddress) ==
  L.assetPair[tokenAddress] # ""
    => oraclePrice(L.assetPair[tokenAddress], L.params.twapPeriod).ok

_getAssetPrice(L, tokenAddress) ==
  getAssetPriceValue(L.assetPair[tokenAddress],
                     oraclePrice(L.assetPair[tokenAddress], L.params.twapPeriod).price,
                     L.assetPrice[tokenAddress])

\* The loop iteration that skips an asset without a price before it looks
\* at the debt
healthOfAsset_SkipUnpriced(L, t, user, tokenAddress) ==
  LET storedCollateral == L.userCollateral[user][tokenAddress]
      storedDebt == L.userDebt[user][tokenAddress]
      userIndex == L.userSupplyIndex[user][tokenAddress]
      collateral ==
        IF storedCollateral > 0
        THEN (storedCollateral * _calculateCurrentSupplyIndex(L, t, tokenAddress))
               \div userIndex
        ELSE storedCollateral
      price == _getAssetPrice(L, tokenAddress)
      lastUpdate == L.userLastUpdate[user][tokenAddress]
      debt == IF t > lastUpdate
              THEN calculateBalanceWithInterest(storedDebt,
                     borrowRateOf(L, tokenAddress), lastUpdate, t)
              ELSE storedDebt
      tokenPrecision == Pow10(tokenDecimals(tokenAddress))
      skip == [ok |-> TRUE, collateralValue |-> 0, debtValue |-> 0]
  IN IF tokenAddress \notin L.supportedAssets THEN skip
     ELSE IF storedCollateral > 0 /\ ~divOK(userIndex)
          THEN [ok |-> FALSE, collateralValue |-> 0, debtValue |-> 0]
     ELSE IF ~_getAssetPriceOK(L, tokenAddress)
          THEN [ok |-> FALSE, collateralValue |-> 0, debtValue |-> 0]
     ELSE IF price = 0 THEN skip
     ELSE [ok |-> TRUE,
           collateralValue |-> IF collateral > 0
                               THEN (collateral * price) \div tokenPrecision ELSE 0,
           debtValue |-> IF storedDebt > 0
                         THEN (debt * price) \div tokenPrecision ELSE 0]

\* USD value = amount * price / 10^tokenDecimals
scaledValue(amount, price, tokenPrecision) == (amount * price) \div tokenPrecision

\* One iteration of the loop of _calculateAccountHealth
healthOfAsset(L, t, user, tokenAddress) ==
  LET storedCollateral == L.userCollateral[user][tokenAddress]
      storedDebt == L.userDebt[user][tokenAddress]
      userIndex == L.userSupplyIndex[user][tokenAddress]
      collateral ==
        IF storedCollateral > 0
        THEN (storedCollateral * _calculateCurrentSupplyIndex(L, t, tokenAddress))
               \div userIndex
        ELSE storedCollateral
      price == _getAssetPrice(L, tokenAddress)
      lastUpdate == L.userLastUpdate[user][tokenAddress]
      debt == IF t > lastUpdate
              THEN calculateBalanceWithInterest(storedDebt,
                     borrowRateOf(L, tokenAddress), lastUpdate, t)
              ELSE storedDebt
      tokenPrecision == Pow10(tokenDecimals(tokenAddress))
      skip == [ok |-> TRUE, collateralValue |-> 0, debtValue |-> 0]
  IN IF tokenAddress \notin L.supportedAssets THEN skip
     ELSE IF storedCollateral > 0 /\ ~divOK(userIndex)
          THEN [ok |-> FALSE, collateralValue |-> 0, debtValue |-> 0]
     ELSE IF ~_getAssetPriceOK(L, tokenAddress)
          THEN [ok |-> FALSE, collateralValue |-> 0, debtValue |-> 0]
     ELSE IF storedDebt > 0 /\ ~(price > 0)
          THEN [ok |-> FALSE, collateralValue |-> 0, debtValue |-> 0]
     ELSE IF price = 0 THEN skip
     ELSE [ok |-> TRUE,
           collateralValue |-> IF collateral > 0
                               THEN scaledValue(collateral, price, tokenPrecision) ELSE 0,
           debtValue |-> IF storedDebt > 0
                         THEN scaledValue(debt, price, tokenPrecision) ELSE 0]

RECURSIVE SumCollateralValue(_, _, _, _)
SumCollateralValue(L, t, user, S) ==
  IF S = {} THEN 0
  ELSE LET a == CHOOSE x \in S : TRUE
       IN healthOfAsset(L, t, user, a).collateralValue
          + SumCollateralValue(L, t, user, S \ {a})

RECURSIVE SumDebtValue(_, _, _, _)
SumDebtValue(L, t, user, S) ==
  IF S = {} THEN 0
  ELSE LET a == CHOOSE x \in S : TRUE
       IN healthOfAsset(L, t, user, a).debtValue
          + SumDebtValue(L, t, user, S \ {a})

\* u256.from(0xFFFFFFFF), written for a user without debt: a value far
\* below PRICE_PRECISION (about 4.3e-9 of it); 1 is the smallest such unit
HF_NO_DEBT == 1

_calculateAccountHealth(L, t, user) ==
  LET userAssetList == L.userAssets[user]
      ok == \A a \in userAssetList : healthOfAsset(L, t, user, a).ok
      totalCollateralValue == SumCollateralValue(L, t, user, userAssetList)
      totalBorrowValue == SumDebtValue(L, t, user, userAssetList)
      adjustedCollateral == mulBP(totalCollateralValue, L.params.liquidationThreshold)
      healthFactor == (adjustedCollateral * PRICE_PRECISION) \div totalBorrowValue
  IN IF ~ok
     THEN [ok |-> FALSE, totalCollateralValue |-> 0, totalBorrowValue |-> 0,
           healthFactor |-> 0, isHealthy |-> FALSE]
     ELSE IF totalBorrowValue = 0
     THEN [ok |-> TRUE, totalCollateralValue |-> totalCollateralValue,
           totalBorrowValue |-> totalBorrowValue,
           healthFactor |-> HF_NO_DEBT, isHealthy |-> TRUE]
     ELSE [ok |-> TRUE, totalCollateralValue |-> totalCollateralValue,
           totalBorrowValue |-> totalBorrowValue,
           healthFactor |-> healthFactor,
           isHealthy |-> healthFactor >= PRICE_PRECISION]

\* The minimum bonus at every health factor
_calculateLiquidationBonus_Flat(L, healthFactor) == L.params.liquidationBonusMin

\* bonusReduction is below bonusRange <= 5000 whenever it is used, so its
\* conversion to u32 keeps the value
_calculateLiquidationBonus(L, healthFactor) ==
  LET minBonus == L.params.liquidationBonusMin
      maxBonus == L.params.liquidationBonusMax
      halfPrecision == PRICE_PRECISION \div 2
      bonusRange == maxBonus - minBonus
      bonusReduction == ((healthFactor - halfPrecision) * bonusRange) \div halfPrecision
  IN IF healthFactor >= PRICE_PRECISION THEN minBonus
     ELSE IF healthFactor <= halfPrecision THEN maxBonus
     ELSE IF bonusReduction >= maxBonus - minBonus THEN minBonus
     ELSE maxBonus - bonusReduction

_userHasAnyDebt(L, user) ==
  \E a \in L.userAssets[user] : L.userDebt[user][a] > 0

\* The asset never entered in the list
addAsset_Never(L, user, tokenAddress) == L

\* UserAssetsStorage
addAsset(L, user, tokenAddress) ==
  [L EXCEPT !.userAssets[user] = @ \cup {tokenAddress}]
removeAsset(L, user, tokenAddress) ==
  [L EXCEPT !.userAssets[user] = @ \ {tokenAddress}]
assetLimitOK(L, user, tokenAddress) ==
  tokenAddress \in L.userAssets[user]
  \/ Cardinality(L.userAssets[user]) < MAX_ASSETS_PER_USER

\* The pool's total read where the user's collateral is meant
actualCollateralOf_PoolTotal(L, user, tokenAddress) ==
  (L.totalCollateral[tokenAddress] * L.supplyIndex[tokenAddress])
    \div L.userSupplyIndex[user][tokenAddress]

\* stored collateral x currentIndex / userIndex
actualCollateralOf(L, user, tokenAddress) ==
  (L.userCollateral[user][tokenAddress] * L.supplyIndex[tokenAddress])
    \div L.userSupplyIndex[user][tokenAddress]


\* ------------------------------------------------------------------------
\* Core lending functions.  Each takes the storage L, the timestamp t, the
\* caller and the call's arguments and returns [ok, st].
\* ------------------------------------------------------------------------
depositCollateral(L, t, caller, tokenAddress, amount) ==
  IF ~whenNotPaused(L) \/ ~nonReentrantStart(L) THEN Revert(L)
  ELSE IF tokenAddress \notin L.supportedAssets \/ ~(amount > 0) THEN Revert(L)
  ELSE
  LET L1 == transferIn(_updateSupplyIndex(nonReentrantLock(L), t, tokenAddress), tokenAddress, amount)
      currentIndex == L1.supplyIndex[tokenAddress]
      currentCollateral == L1.userCollateral[caller][tokenAddress]
      userIndex == L1.userSupplyIndex[caller][tokenAddress]
      newCollateral == IF currentCollateral > 0
                       THEN ((currentCollateral * currentIndex) \div userIndex) + amount
                       ELSE amount
      L2 == [L1 EXCEPT !.userCollateral[caller][tokenAddress] = newCollateral,
                       !.userSupplyIndex[caller][tokenAddress] = currentIndex]
      L3 == addAsset(L2, caller, tokenAddress)
  IN IF currentCollateral > 0 /\ ~divOK(userIndex) THEN Revert(L)
     ELSE IF ~assetLimitOK(L2, caller, tokenAddress) THEN Revert(L)
     ELSE Done(nonReentrantEnd(
            [L3 EXCEPT !.totalCollateral[tokenAddress] = @ + amount,
                       !.userLastUpdate[caller][tokenAddress] = t]))

\* The withdrawal check without its 1.1 buffer
withdrawHealthOK_NoBuffer(health) ==
  health.totalBorrowValue > 0 => health.isHealthy

\* assert(health.healthFactor >= PRICE_PRECISION * 11 / 10)
withdrawHealthOK(health) ==
  health.totalBorrowValue > 0 =>
    /\ health.isHealthy
    /\ health.healthFactor >= (PRICE_PRECISION * 11) \div 10

withdrawCollateral(L, t, caller, tokenAddress, amount) ==
  IF ~whenNotPaused(L) \/ ~nonReentrantStart(L) THEN Revert(L)
  ELSE
  LET L1 == _updateSupplyIndex(nonReentrantLock(L), t, tokenAddress)
      currentIndex == L1.supplyIndex[tokenAddress]
      userIndex == L1.userSupplyIndex[caller][tokenAddress]
      actualCollateral == actualCollateralOf(L1, caller, tokenAddress)
      L2 == _accrueInterest(L1, t, caller, tokenAddress)
      newCollateral == actualCollateral - amount
      L3 == [L2 EXCEPT !.userCollateral[caller][tokenAddress] = newCollateral,
                       !.userSupplyIndex[caller][tokenAddress] = currentIndex]
      health == _calculateAccountHealth(L3, t, caller)
      L4 == transferOut([L3 EXCEPT !.totalCollateral[tokenAddress] = @ - amount],
                        tokenAddress, amount)
      L5 == [L4 EXCEPT !.userLastUpdate[caller][tokenAddress] = t]
      L6 == IF newCollateral = 0 /\ L5.userDebt[caller][tokenAddress] = 0
            THEN removeAsset(L5, caller, tokenAddress) ELSE L5
  IN IF ~divOK(userIndex) THEN Revert(L)
     ELSE IF ~(actualCollateral >= amount) THEN Revert(L)
     ELSE IF ~subOK(actualCollateral, amount) THEN Revert(L)
     ELSE IF ~health.ok THEN Revert(L)
     ELSE IF ~withdrawHealthOK(health) THEN Revert(L)
     ELSE IF ~subOK(L3.totalCollateral[tokenAddress], amount) THEN Revert(L)
     ELSE IF ~transferOK(L3, tokenAddress, amount) THEN Revert(L)
     ELSE Done(nonReentrantEnd(L6))

emergencyWithdraw(L, t, caller, tokenAddress, amount) ==
  IF ~nonReentrantStart(L) THEN Revert(L)
  ELSE IF _userHasAnyDebt(L, caller) THEN Revert(L)
  ELSE
  LET L1 == _updateSupplyIndex(nonReentrantLock(L), t, tokenAddress)
      currentIndex == L1.supplyIndex[tokenAddress]
      userIndex == L1.userSupplyIndex[caller][tokenAddress]
      actualCollateral == actualCollateralOf(L1, caller, tokenAddress)
      newCollateral == actualCollateral - amount
      L2 == [L1 EXCEPT !.userCollateral[caller][tokenAddress] = newCollateral,
                       !.userSupplyIndex[caller][tokenAddress] = currentIndex,
                       !.totalCollateral[tokenAddress] = @ - amount]
      L3 == transferOut(L2, tokenAddress, amount)
      L4 == [L3 EXCEPT !.userLastUpdate[caller][tokenAddress] = t]
      L5 == IF newCollateral = 0 THEN removeAsset(L4, caller, tokenAddress) ELSE L4
  IN IF ~divOK(userIndex) THEN Revert(L)
     ELSE IF ~(actualCollateral >= amount) THEN Revert(L)
     ELSE IF ~subOK(actualCollateral, amount) THEN Revert(L)
     ELSE IF ~subOK(L1.totalCollateral[tokenAddress], amount) THEN Revert(L)
     ELSE IF ~transferOK(L1, tokenAddress, amount) THEN Revert(L)
     ELSE Done(nonReentrantEnd(L5))

\* The borrow check without the collateral-factor assert
borrowHealthOK_NoLTV(L, health) == health.isHealthy

\* assert(health.isHealthy); assert(totalBorrowValue <= mulBP(totalCollateralValue, collateralFactor))
borrowHealthOK(L, health) ==
  /\ health.isHealthy
  /\ health.totalBorrowValue
       <= mulBP(health.totalCollateralValue, L.params.collateralFactor)

borrow(L, t, caller, tokenAddress, amount) ==
  IF ~whenNotPaused(L) \/ ~nonReentrantStart(L) THEN Revert(L)
  ELSE IF tokenAddress \notin L.supportedAssets \/ ~(amount > 0) THEN Revert(L)
  ELSE
  LET L1 == _accrueInterest(_updateSupplyIndex(nonReentrantLock(L), t, tokenAddress), t, caller, tokenAddress)
      newDebt == L1.userDebt[caller][tokenAddress] + amount
      L2 == [L1 EXCEPT !.userDebt[caller][tokenAddress] = newDebt]
      L3 == addAsset(L2, caller, tokenAddress)
      L4 == [L3 EXCEPT !.totalBorrows[tokenAddress] = @ + amount]
      health == _calculateAccountHealth(L4, t, caller)
      L5 == transferOut(L4, tokenAddress, amount)
  IN IF ~assetLimitOK(L2, caller, tokenAddress) THEN Revert(L)
     ELSE IF ~health.ok THEN Revert(L)
     ELSE IF ~borrowHealthOK(L4, health) THEN Revert(L)
     ELSE IF ~transferOK(L4, tokenAddress, amount) THEN Revert(L)
     ELSE Done(nonReentrantEnd([L5 EXCEPT !.userLastUpdate[caller][tokenAddress] = t]))

\* actualAmount = SafeMath.min(amount, currentDebt)
repayAmount(amount, currentDebt) == Min(amount, currentDebt)

repay(L, t, caller, tokenAddress, amount) ==
  IF ~whenNotPaused(L) \/ ~nonReentrantStart(L) THEN Revert(L)
  ELSE
  LET L1 == _accrueInterest(_updateSupplyIndex(nonReentrantLock(L), t, tokenAddress), t, caller, tokenAddress)
      currentDebt == L1.userDebt[caller][tokenAddress]
      actualAmount == repayAmount(amount, currentDebt)
      newDebt == currentDebt - actualAmount
      L2 == transferIn(L1, tokenAddress, actualAmount)
      L3 == [L2 EXCEPT !.userDebt[caller][tokenAddress] = newDebt,
                       !.totalBorrows[tokenAddress] = @ - actualAmount,
                       !.userLastUpdate[caller][tokenAddress] = t]
      L4 == IF newDebt = 0 /\ L3.userCollateral[caller][tokenAddress] = 0
            THEN removeAsset(L3, caller, tokenAddress) ELSE L3
  IN IF ~(currentDebt > 0) THEN Revert(L)
     ELSE IF ~subOK(currentDebt, actualAmount) THEN Revert(L)
     ELSE IF ~subOK(L1.totalBorrows[tokenAddress], actualAmount) THEN Revert(L)
     ELSE [ok |-> TRUE, st |-> nonReentrantEnd(L4), repaid |-> actualAmount]

\* The liquidation check dropped
liquidationAllowed_Always(health) == TRUE

\* assert(!health.isHealthy)
liquidationAllowed(health) == ~health.isHealthy

\* assert(borrowerCollateral >= collateralWithBonus)
seizeOK(borrowerCollateral, collateralWithBonus) ==
  borrowerCollateral >= collateralWithBonus

\* The whole requested amount, whatever the close factor
actualLiquidationAmountOf_Uncapped(debtAmount, borrowerDebt, closeFactor) == debtAmount

\* SafeMath.min(debtAmount, SafeMath.mulBP(borrowerDebt, closeFactor))
actualLiquidationAmountOf(debtAmount, borrowerDebt, closeFactor) ==
  Min(debtAmount, mulBP(borrowerDebt, closeFactor))

\* The settlement that leaves totalCollateral where it was
liquidateSettle_TotalKept(L, L1, health, borrower, collateralToken, debtToken, actualLiquidationAmount, liquidationBonus, collateralWithBonus) ==
  LET borrowerDebt == L1.userDebt[borrower][debtToken]
      borrowerCollateral == L1.userCollateral[borrower][collateralToken]
      L2 == transferIn(L1, debtToken, actualLiquidationAmount)
      L3 == [L2 EXCEPT !.userDebt[borrower][debtToken] = borrowerDebt - actualLiquidationAmount,
                       !.userCollateral[borrower][collateralToken] =
                          borrowerCollateral - collateralWithBonus]
      L6 == [transferOut(L3, collateralToken, collateralWithBonus)
               EXCEPT !.totalBorrows[debtToken] = @ - actualLiquidationAmount]
  IN IF ~seizeOK(borrowerCollateral, collateralWithBonus) THEN Revert(L)
     ELSE IF ~subOK(borrowerDebt, actualLiquidationAmount) THEN Revert(L)
     ELSE IF ~subOK(borrowerCollateral, collateralWithBonus) THEN Revert(L)
     ELSE IF ~transferOK(L2, collateralToken, collateralWithBonus) THEN Revert(L)
     ELSE IF ~subOK(L1.totalBorrows[debtToken], actualLiquidationAmount) THEN Revert(L)
     ELSE IF ~subOK(L1.totalCollateral[collateralToken], collateralWithBonus) THEN Revert(L)
     ELSE [ok |-> TRUE, st |-> nonReentrantEnd(L6), repaid |-> actualLiquidationAmount,
           seized |-> collateralWithBonus, bonus |-> liquidationBonus,
           healthFactor |-> health.healthFactor]

\* liquidate, last part: the transfers and the four storage writes
liquidateSettle(L, L1, health, borrower, collateralToken, debtToken, actualLiquidationAmount, liquidationBonus, collateralWithBonus) ==
  LET borrowerDebt == L1.userDebt[borrower][debtToken]
      borrowerCollateral == L1.userCollateral[borrower][collateralToken]
      L2 == transferIn(L1, debtToken, actualLiquidationAmount)
      L3 == [L2 EXCEPT !.userDebt[borrower][debtToken] = borrowerDebt - actualLiquidationAmount,
                       !.userCollateral[borrower][collateralToken] =
                          borrowerCollateral - collateralWithBonus]
      L6 == [transferOut(L3, collateralToken, collateralWithBonus)
               EXCEPT !.totalBorrows[debtToken] = @ - actualLiquidationAmount,
                      !.totalCollateral[collateralToken] = @ - collateralWithBonus]
  IN IF ~seizeOK(borrowerCollateral, collateralWithBonus) THEN Revert(L)
     ELSE IF ~subOK(borrowerDebt, actualLiquidationAmount) THEN Revert(L)
     ELSE IF ~subOK(borrowerCollateral, collateralWithBonus) THEN Revert(L)
     ELSE IF ~transferOK(L2, collateralToken, collateralWithBonus) THEN Revert(L)
     ELSE IF ~subOK(L1.totalBorrows[debtToken], actualLiquidationAmount) THEN Revert(L)
     ELSE IF ~subOK(L1.totalCollateral[collateralToken], collateralWithBonus) THEN Revert(L)
     ELSE [ok |-> TRUE, st |-> nonReentrantEnd(L6), repaid |-> actualLiquidationAmount,
           seized |-> collateralWithBonus, bonus |-> liquidationBonus,
           healthFactor |-> health.healthFactor]

\* collateralToSeize = debtAmount * debtPrice / collateralPrice, plus its bonus
collateralWithBonusOf(actualLiquidationAmount, debtPrice, collateralPrice, liquidationBonus) ==
  LET collateralToSeize == (actualLiquidationAmount * debtPrice) \div collateralPrice
  IN collateralToSeize + mulBP(collateralToSeize, liquidationBonus)

\* liquidate, third part: the collateral to seize and its bonus
liquidateSeize(L, L1, health, borrower, collateralToken, debtToken, actualLiquidationAmount, collateralPrice, debtPrice, liquidationBonus) ==
  IF ~(collateralPrice > 0) \/ ~(debtPrice > 0) THEN Revert(L)
  ELSE liquidateSettle(L, L1, health, borrower, collateralToken, debtToken,
                       actualLiquidationAmount, liquidationBonus,
                       collateralWithBonusOf(actualLiquidationAmount, debtPrice,
                                             collateralPrice, liquidationBonus))

\* liquidate, second part: the asserts on the borrower and the close factor
liquidateChecked(L, L1, health, borrower, collateralToken, debtToken, debtAmount) ==
  IF ~health.ok THEN Revert(L)
  ELSE IF ~liquidationAllowed(health) THEN Revert(L)
  ELSE IF ~(L1.userDebt[borrower][debtToken] > 0) THEN Revert(L)
  ELSE IF ~_getAssetPriceOK(L1, collateralToken) THEN Revert(L)
  ELSE IF ~_getAssetPriceOK(L1, debtToken) THEN Revert(L)
  ELSE liquidateSeize(L, L1, health, borrower, collateralToken, debtToken,
         actualLiquidationAmountOf(debtAmount, L1.userDebt[borrower][debtToken],
                                   L1.params.closeFactor),
         _getAssetPrice(L1, collateralToken), _getAssetPrice(L1, debtToken),
         _calculateLiquidationBonus(L1, health.healthFactor))

\* liquidate, after the index updates and the accrual of the borrower's debt
liquidateAccrued(L, L1, t, borrower, collateralToken, debtToken, debtAmount) ==
  liquidateChecked(L, L1, _calculateAccountHealth(L1, t, borrower), borrower,
                   collateralToken, debtToken, debtAmount)

liquidate(L, t, liquidator, borrower, collateralToken, debtToken, debtAmount) ==
  IF ~whenNotPaused(L) \/ ~nonReentrantStart(L) THEN Revert(L)
  ELSE liquidateAccrued(L,
         _accrueInterest(
           _updateSupplyIndex(_updateSupplyIndex(nonReentrantLock(L), t, collateralToken), t, debtToken),
           t, borrower, debtToken),
         t, borrower, collateralToken, debtToken, debtAmount)


\* ------------------------------------------------------------------------
\* Flash loan: the part before the callback, and the part after it
\* ------------------------------------------------------------------------
\* The fee parameter taken for the fee
flashLoanFeeOf_Flat(L, amount) == L.params.flashLoanFee

\* SafeMath.mulBP(amount, flashLoanFee)
flashLoanFeeOf(L, amount) == mulBP(amount, L.params.flashLoanFee)

flashLoanBegin(L, caller, receiverAddress, tokenAddress, amount) ==
  IF ~whenNotPaused(L) \/ ~nonReentrantStart(L) THEN Revert(L)
  ELSE IF ~L.params.flashLoanEnabled THEN Revert(L)
  ELSE IF tokenAddress \notin L.supportedAssets \/ ~(amount > 0) THEN Revert(L)
  ELSE IF ~subOK(L.totalCollateral[tokenAddress], L.totalBorrows[tokenAddress])
       THEN Revert(L)
  ELSE IF ~(L.totalCollateral[tokenAddress] - L.totalBorrows[tokenAddress] >= amount)
       THEN Revert(L)
  ELSE IF ~transferOK(L, tokenAddress, amount) THEN Revert(L)
  ELSE Done(transferOut(nonReentrantLock(L), tokenAddress, amount))

\* The repayment check without the fee
flashRepaid_NoFee(balanceAfter, balanceBefore, feeAmount) ==
  balanceAfter >= balanceBefore

\* assert(balanceAfter >= balanceBefore + feeAmount)
flashRepaid(balanceAfter, balanceBefore, feeAmount) ==
  balanceAfter >= balanceBefore + feeAmount

flashLoanFinish(L, fr, callbackSuccess) ==
  IF ~callbackSuccess THEN Revert(L)
  ELSE IF ~flashRepaid(L.tokenBalance[fr.token], fr.balanceBefore, fr.fee)
       THEN Revert(L)
  ELSE Done(nonReentrantEnd([L EXCEPT !.treasuryReserves[fr.token] = @ + fr.fee]))

\* ------------------------------------------------------------------------
\* Admin functions
\* ------------------------------------------------------------------------
\* The pool's token balance taken for the liquidity
availableLiquidity_Balance(L, tokenAddress) == L.tokenBalance[tokenAddress]

\* totalCollateral > totalBorrows ? totalCollateral - totalBorrows : 0
availableLiquidity(L, tokenAddress) ==
  IF L.totalCollateral[tokenAddress] > L.totalBorrows[tokenAddress]
  THEN L.totalCollateral[tokenAddress] - L.totalBorrows[tokenAddress]
  ELSE 0

withdrawTreasuryReserves(L, caller, tokenAddress, amount) ==
  IF ~onlyOwner(L, caller) \/ ~nonReentrantStart(L) THEN Revert(L)
  ELSE IF ~(L.treasuryReserves[tokenAddress] >= amount) THEN Revert(L)
  ELSE IF ~(availableLiquidity(L, tokenAddress) >= amount) THEN Revert(L)
  ELSE IF L.params.treasury = "" THEN Revert(L)
  ELSE IF ~transferOK(L, tokenAddress, amount) THEN Revert(L)
  ELSE Done(nonReentrantEnd(
         transferOut([nonReentrantLock(L) EXCEPT !.treasuryReserves[tokenAddress] = @ - amount],
                     tokenAddress, amount)))

addSupportedAsset(L, caller, tokenAddress) ==
  IF ~onlyOwner(L, caller) THEN Revert(L)
  ELSE Done([L EXCEPT !.supportedAssets = @ \cup {tokenAddress}])

setAssetPrice(L, caller, tokenAddress, price) ==
  IF ~onlyOwner(L, caller) THEN Revert(L)
  ELSE IF ~(price > 0) THEN Revert(L)
  ELSE Done([L EXCEPT !.assetPrice[tokenAddress] = price])

setAssetPair(L, caller, tokenAddress, pairAddress) ==
  IF ~onlyOwner(L, caller) THEN Revert(L)
  ELSE IF tokenAddress \notin L.supportedAssets THEN Revert(L)
  ELSE Done([L EXCEPT !.assetPair[tokenAddress] = pairAddress])

\* pause without its whenNotPaused assert
pause_WhenPaused(L, caller) ==
  IF ~onlyOwner(L, caller) THEN Revert(L)
  ELSE Done([L EXCEPT !.paused = TRUE])

pause(L, caller) ==
  IF ~onlyOwner(L, caller) \/ ~whenNotPaused(L) THEN Revert(L)
  ELSE Done([L EXCEPT !.paused = TRUE])

unpause(L, caller) ==
  IF ~onlyOwner(L, caller) \/ ~whenPaused(L) THEN Revert(L)
  ELSE Done([L EXCEPT !.paused = FALSE])

\* InterestRateModel.validateParameters
\* The validation that looks at the base rate only
validateParameters_BaseOnly(baseRate, optimalUtilization, slope1, slope2) ==
  ~(baseRate > 5000)

validateParameters(baseRate, optimalUtilization, slope1, slope2) ==
  /\ ~(baseRate > 5000)
  /\ ~(optimalUtilization < 5000 \/ optimalUtilization > 9500)
  /\ ~(slope1 = 0 \/ slope1 > 10000)
  /\ ~(slope2 = 0 \/ slope2 > 20000)

setInterestRateParams(L, caller, baseRate, optimalUtil, slope1, slope2) ==
  IF ~onlyOwner(L, caller) THEN Revert(L)
  ELSE IF ~validateParameters(baseRate, optimalUtil, slope1, slope2) THEN Revert(L)
  ELSE Done([L EXCEPT !.params.baseRate = baseRate,
                      !.params.optimalUtilization = optimalUtil,
                      !.params.slope1 = slope1,
                      !.params.slope2 = slope2])

transferOwnership(L, caller, newOwner) ==
  IF ~onlyOwner(L, caller) THEN Revert(L)
  ELSE IF ~(newOwner # "") THEN Revert(L)
  ELSE Done([L EXCEPT !.owner = newOwner])

setTWAPPeriod(L, caller, period) ==
  IF ~onlyOwner(L, caller) THEN Revert(L)
  ELSE IF ~(period > 0 /\ period <= 3600000) THEN Revert(L)
  ELSE Done([L EXCEPT !.params.twapPeriod = period])

setReserveFactor(L, caller, reserveFactor) ==
  IF ~onlyOwner(L, caller) THEN Revert(L)
  ELSE IF ~(reserveFactor <= 5000) THEN Revert(L)
  ELSE Done([L EXCEPT !.params.reserveFactor = reserveFactor])

setFlashLoanFee(L, caller, fee) ==
  IF ~onlyOwner(L, caller) THEN Revert(L)
  ELSE IF ~(fee <= 100) THEN Revert(L)
  ELSE Done([L EXCEPT !.params.flashLoanFee = fee])

setFlashLoanEnabled(L, caller, enabled) ==
  IF ~onlyOwner(L, caller) THEN Revert(L)
  ELSE Done([L EXCEPT !.params.flashLoanEnabled = enabled])

\* getAccountHealth: the snapshot's four fields in the order they are
\* serialized; the call fails when the computation does
getAccountHealth(L, t, userAddress) ==
  LET health == _calculateAccountHealth(L, t, userAddress)
  IN [ok |-> health.ok,
      out |-> <<health.totalCollateralValue, health.totalBorrowValue,
                health.healthFactor, health.isHealthy>>]

setCloseFactor(L, caller, closeFactor) ==
  IF ~onlyOwner(L, caller) THEN Revert(L)
  ELSE IF ~(closeFactor >= 1000 /\ closeFactor <= 10000) THEN Revert(L)
  ELSE Done([L EXCEPT !.params.closeFactor = closeFactor])

setLiquidationBonusRange(L, caller, minBonus, maxBonus) ==
  IF ~onlyOwner(L, caller) THEN Revert(L)
  ELSE IF ~(minBonus <= maxBonus) THEN Revert(L)
  ELSE IF ~(maxBonus <= 5000) THEN Revert(L)
  ELSE Done([L EXCEPT !.params.liquidationBonusMin = minBonus,
                      !.params.liquidationBonusMax = maxBonus])

\* ------------------------------------------------------------------------
\* Actions: one per entry point.  While a flash-loan callback runs, the only
\* code that can call the pool is the receiver.
\* ------------------------------------------------------------------------
CallerOK(caller) == frame.active => caller = frame.receiver

DepositCollateralOf(calls, cap) ==
  \E c \in calls :
    LET caller == c[1]
        a == c[2]
        amount == c[3]
        r == depositCollateral(Cur, now, caller, a, amount)
    IN /\ CallerOK(caller)
       /\ userCollateral[caller][a] + amount <= cap
       /\ r.ok
       /\ Commit(r.st)
       /\ lastFlash' = NoOutcome
       /\ UNCHANGED <<now, frame, calc>>

WithdrawCollateralOf(calls) ==
  \E c \in calls :
    LET caller == c[1]
        a == c[2]
        amount == c[3]
        r == withdrawCollateral(Cur, now, caller, a, amount)
    IN /\ CallerOK(caller)
       /\ r.ok
       /\ Commit(r.st)
       /\ lastFlash' = NoOutcome
       /\ UNCHANGED <<now, frame, calc>>

EmergencyWithdrawOf(calls) ==
  \E c \in calls :
    LET caller == c[1]
        a == c[2]
        amount == c[3]
        r == emergencyWithdraw(Cur, now, caller, a, amount)
    IN /\ CallerOK(caller)
       /\ r.ok
       /\ Commit(r.st)
       /\ lastFlash' = NoOutcome
       /\ UNCHANGED <<now, frame, calc>>

BorrowOf(calls) ==
  \E c \in calls :
    LET caller == c[1]
        a == c[2]
        amount == c[3]
        r == borrow(Cur, now, caller, a, amount)
    IN /\ CallerOK(caller)
       /\ r.ok
       /\ Commit(r.st)
       /\ lastFlash' = NoOutcome
       /\ UNCHANGED <<now, frame, calc>>

RepayOf(calls) ==
  \E c \in calls :
    LET caller == c[1]
        a == c[2]
        amount == c[3]
        r == repay(Cur, now, caller, a, amount)
    IN /\ CallerOK(caller)
       /\ r.ok
       /\ Commit(r.st)
       /\ lastFlash' = NoOutcome
       /\ UNCHANGED <<now, frame, calc>>

LiquidateOf(calls) ==
  \E c \in calls :
    LET liquidator == c[1]
        borrower == c[2]
        collateralToken == c[3]
        debtToken == c[4]
        debtAmount == c[5]
        r == liquidate(Cur, now, liquidator, borrower, collateralToken,
                       debtToken, debtAmount)
    IN /\ CallerOK(liquidator)
       /\ r.ok
       /\ Commit(r.st)
       /\ lastFlash' = NoOutcome
       /\ UNCHANGED <<now, frame, calc>>

FlashLoanStartOf(calls) ==
  \E c \in calls :
    LET caller == c[1]
        receiver == c[2]
        a == c[3]
        amount == c[4]
        r == flashLoanBegin(Cur, caller, receiver, a, amount)
    IN /\ ~frame.active
       /\ treasuryReserves[a] < MaxReserves
       /\ r.ok
       /\ Commit(r.st)
       /\ frame' = [active |-> TRUE, caller |-> caller, receiver |-> receiver,
                    token |-> a, amount |-> amount,
                    fee |-> flashLoanFeeOf(Cur, amount),
                    balanceBefore |-> tokenBalance[a],
                    saved |-> Cur]
       /\ lastFlash' = NoOutcome
       /\ UNCHANGED <<now, calc>>

\* Inside the callback the receiver sends tokens to the pool
CallbackRepayOf(amounts) ==
  \E amount \in amounts :
    /\ frame.active
    /\ tokenBalance[frame.token] = frame.balanceBefore - frame.amount
    /\ tokenBalance' = [tokenBalance EXCEPT ![frame.token] = @ + amount]
    /\ lastFlash' = NoOutcome
    /\ UNCHANGED <<owner, paused, reentrancyGuard, params, supportedAssets,
                   assetPrice, assetPair, userCollateral, userDebt,
                   userLastUpdate, userSupplyIndex, userAssets,
                   totalCollateral, totalBorrows, supplyIndex,
                   supplyIndexLastUpdate, treasuryReserves, now, frame, calc>>

\* The callback returns.  A failed assert aborts the operation: the storage
\* and the token balances are as they were before the call.
FlashLoanEnd ==
  \E callbackSuccess \in BOOLEAN :
    LET r == flashLoanFinish(Cur, frame, callbackSuccess)
    IN /\ frame.active
       /\ IF r.ok
          THEN /\ Commit(r.st)
               /\ lastFlash' = [op |-> "flashLoan", caller |-> frame.caller,
                             token |-> frame.token, amount |-> frame.amount,
                             callbackSuccess |-> callbackSuccess,
                             balanceAfter |-> tokenBalance[frame.token],
                             balanceBefore |-> frame.balanceBefore,
                             fee |-> frame.fee, before |-> frame.saved]
          ELSE /\ Commit(frame.saved)
               /\ lastFlash' = [op |-> "flashLoanAborted", caller |-> frame.caller,
                             token |-> frame.token, amount |-> frame.amount,
                             callbackSuccess |-> callbackSuccess,
                             balanceAfter |-> tokenBalance[frame.token],
                             balanceBefore |-> frame.balanceBefore,
                             fee |-> frame.fee, before |-> frame.saved]
       /\ frame' = NoFrame
       /\ UNCHANGED <<now, calc>>

WithdrawTreasuryReservesOf(calls) ==
  \E c \in calls :
    LET caller == c[1]
        a == c[2]
        amount == c[3]
        r == withdrawTreasuryReserves(Cur, caller, a, amount)
    IN /\ CallerOK(caller)
       /\ r.ok
       /\ Commit(r.st)
       /\ lastFlash' = NoOutcome
       /\ UNCHANGED <<now, frame, calc>>

AddSupportedAssetOf(assets) ==
  \E caller \in Callers, a \in assets :
    LET r == addSupportedAsset(Cur, caller, a)
    IN /\ CallerOK(caller)
       /\ a \notin supportedAssets
       /\ r.ok
       /\ Commit(r.st)
       /\ lastFlash' = NoOutcome
       /\ UNCHANGED <<now, frame, calc>>

SetAssetPriceOf(calls) ==
  \E caller \in Callers, c \in calls :
    LET a == c[1]
        price == c[2]
        r == setAssetPrice(Cur, caller, a, price)
    IN /\ CallerOK(caller)
       /\ assetPrice[a] # price
       /\ r.ok
       /\ Commit(r.st)
       /\ lastFlash' = NoOutcome
       /\ UNCHANGED <<now, frame, calc>>

SetAssetPairOf(assets, pairs) ==
  \E caller \in Callers, a \in assets, pairAddress \in pairs :
    LET r == setAssetPair(Cur, caller, a, pairAddress)
    IN /\ CallerOK(caller)
       /\ assetPair[a] # pairAddress
       /\ r.ok
       /\ Commit(r.st)
       /\ lastFlash' = NoOutcome
       /\ UNCHANGED <<now, frame, calc>>

Pause ==
  \E caller \in Callers :
    LET r == pause(Cur, caller)
    IN /\ CallerOK(caller)
       /\ r.ok
       /\ Commit(r.st)
       /\ lastFlash' = NoOutcome
       /\ UNCHANGED <<now, frame, calc>>

Unpause ==
  \E caller \in Callers :
    LET r == unpause(Cur, caller)
    IN /\ CallerOK(caller)
       /\ r.ok
       /\ Commit(r.st)
       /\ lastFlash' = NoOutcome
       /\ UNCHANGED <<now, frame, calc>>

\* Basis points an owner may send to the liquidation setters
CloseFactorValues == {999, 1000, 5000, 10000, 10001}
BonusValues == {0, 250, 500, 1000, 1500, 2000, 3000, 4000, 5000, 5001}

SetCloseFactorOf(values) ==
  \E caller \in Callers, closeFactor \in values :
    LET r == setCloseFactor(Cur, caller, closeFactor)
    IN /\ CallerOK(caller)
       /\ params.closeFactor # closeFactor
       /\ r.ok
       /\ Commit(r.st)
       /\ lastFlash' = NoOutcome
       /\ UNCHANGED <<now, frame, calc>>

SetLiquidationBonusRangeOf(values) ==
  \E caller \in Callers, minBonus \in values, maxBonus \in values :
    LET r == setLiquidationBonusRange(Cur, caller, minBonus, maxBonus)
    IN /\ CallerOK(caller)
       /\ <<params.liquidationBonusMin, params.liquidationBonusMax>>
            # <<minBonus, maxBonus>>
       /\ r.ok
       /\ Commit(r.st)
       /\ lastFlash' = NoOutcome
       /\ UNCHANGED <<now, frame, calc>>

\* <<baseRate, optimalUtilization, slope1, slope2>>
RateParamCalls == {<<300, 7000, 500, 8000>>, <<5001, 7000, 500, 8000>>}
NewOwners == {"", "admin", "u2"}
PeriodValues == {0, 60, 3600001}
ReserveFactorValues == {2000, 5001}
FlashLoanFeeValues == {10, 101}

SetInterestRateParamsOf(calls) ==
  \E caller \in Callers, c \in calls :
    LET r == setInterestRateParams(Cur, caller, c[1], c[2], c[3], c[4])
    IN /\ CallerOK(caller)
       /\ <<params.baseRate, params.optimalUtilization,
            params.slope1, params.slope2>> # c
       /\ r.ok
       /\ Commit(r.st)
       /\ lastFlash' = NoOutcome
       /\ UNCHANGED <<now, frame, calc>>

TransferOwnership ==
  \E caller \in Callers, newOwner \in NewOwners :
    LET r == transferOwnership(Cur, caller, newOwner)
    IN /\ CallerOK(caller)
       /\ owner # newOwner
       /\ r.ok
       /\ Commit(r.st)
       /\ lastFlash' = NoOutcome
       /\ UNCHANGED <<now, frame, calc>>

SetTWAPPeriod ==
  \E caller \in Callers, period \in PeriodValues :
    LET r == setTWAPPeriod(Cur, caller, period)
    IN /\ CallerOK(caller)
       /\ params.twapPeriod # period
       /\ r.ok
       /\ Commit(r.st)
       /\ lastFlash' = NoOutcome
       /\ UNCHANGED <<now, frame, calc>>

SetReserveFactorOf(values) ==
  \E caller \in Callers, reserveFactor \in values :
    LET r == setReserveFactor(Cur, caller, reserveFactor)
    IN /\ CallerOK(caller)
       /\ params.reserveFactor # reserveFactor
       /\ r.ok
       /\ Commit(r.st)
       /\ lastFlash' = NoOutcome
       /\ UNCHANGED <<now, frame, calc>>

SetFlashLoanFeeOf(values) ==
  \E caller \in Callers, fee \in values :
    LET r == setFlashLoanFee(Cur, caller, fee)
    IN /\ CallerOK(caller)
       /\ params.flashLoanFee # fee
       /\ r.ok
       /\ Commit(r.st)
       /\ lastFlash' = NoOutcome
       /\ UNCHANGED <<now, frame, calc>>

SetFlashLoanEnabled ==
  \E caller \in Callers, enabled \in BOOLEAN :
    LET r == setFlashLoanEnabled(Cur, caller, enabled)
    IN /\ CallerOK(caller)
       /\ params.flashLoanEnabled # enabled
       /\ r.ok
       /\ Commit(r.st)
       /\ lastFlash' = NoOutcome
       /\ UNCHANGED <<now, frame, calc>>

\* Time passes between operations, never inside one
Tick ==
  \E dt \in TimeSteps :
    /\ ~frame.active
    /\ now + dt <= MaxTime
    /\ now' = now + dt
    /\ lastFlash' = NoOutcome
    /\ UNCHANGED <<owner, paused, reentrancyGuard, params, supportedAssets,
                   assetPrice, assetPair, userCollateral, userDebt,
                   userLastUpdate, userSupplyIndex, userAssets,
                   totalCollateral, totalBorrows, supplyIndex,
                   supplyIndexLastUpdate, treasuryReserves, tokenBalance,
                   frame, calc>>

\* One SafeMath call on two u256 operands, evaluated by both libraries
SafeMathCall ==
  \E op \in MathOps, a \in 0..U256Max, b \in 0..U256Max :
    /\ ~frame.active
    /\ calc' = [op |-> op, a |-> a, b |-> b,
                first |-> SafeMathOf(op, a, b),
                second |-> SafeMathNativeOf(op, a, b)]
    /\ UNCHANGED <<ledgerVars, now, frame, lastFlash>>

\* The collateral a liquidation pays for a repaid amount, with both sides
\* valued as _calculateAccountHealth values them, for tokens of any decimals
DecimalCounts == {0, 1, 2}
ValuationAmounts == {10, 100, 150}
ValuationPrices == {5, 10, 20}
ValuationBonuses == {0, 500, 1000}

LiquidationValuation ==
  \E amount \in ValuationAmounts, debtPrice \in ValuationPrices,
     collateralPrice \in ValuationPrices, bonus \in ValuationBonuses,
     debtDecimals \in DecimalCounts, collateralDecimals \in DecimalCounts :
    LET seized == collateralWithBonusOf(amount, debtPrice, collateralPrice, bonus)
    IN /\ ~frame.active
       /\ calc' = [op |-> "liquidationValue", repaid |-> amount, seized |-> seized,
                   bonus |-> bonus, collateralPrice |-> collateralPrice,
                   collateralDecimals |-> collateralDecimals,
                   debtDecimals |-> debtDecimals,
                   collateralValue |-> scaledValue(seized, collateralPrice,
                                                   Pow10(collateralDecimals)),
                   debtValue |-> scaledValue(amount, debtPrice, Pow10(debtDecimals))]
       /\ UNCHANGED <<ledgerVars, now, frame, lastFlash>>

\* ------------------------------------------------------------------------
\* BinHelper: bin ids to prices in fixed point.  The 256-bit word holding a
\* 128.128 number is scaled to a 14-bit word holding a 7.7 number, so that
\* 1.0 squared is exactly the first value that does not fit, as in the code.
\* ------------------------------------------------------------------------
BinWord == 16384
BIN_SCALE_OFFSET == 7
BIN_REAL_ID_SHIFT == 8
BIN_BASIS_POINT_MAX == 100

\* u256.add and u256.mul wrap
binAdd(a, b) == (a + b) % BinWord
binMul(a, b) == (a * b) % BinWord
binWraps(a, b) == a * b >= BinWord

\* value << bits, by repeated u256.add(result, result)
RECURSIVE leftShift(_, _)
leftShift(value, bits) ==
  IF bits = 0 THEN value ELSE leftShift(binAdd(value, value), bits - 1)

\* value >> bits, by repeated division by 2
RECURSIVE rightShift(_, _)
rightShift(value, bits) ==
  IF bits = 0 THEN value
  ELSE IF value <= 1 THEN 0
  ELSE rightShift(value \div 2, bits - 1)

\* 1.0 in fixed point
binOne == leftShift(1, BIN_SCALE_OFFSET)

\* (1 << 128) + (binStep << 128) / 10000
_getBPValue(binStep) ==
  binAdd(binOne, leftShift(binStep, BIN_SCALE_OFFSET) \div BIN_BASIS_POINT_MAX)

\* The loop of power: [value, wrapped] after the remaining bits of exp
RECURSIVE powerLoop(_, _, _, _)
powerLoop(result, currentBase, exp, wrapped) ==
  IF exp = 0 THEN [value |-> result, wrapped |-> wrapped]
  ELSE powerLoop(
         IF exp % 2 = 1
         THEN rightShift(binMul(result, currentBase), BIN_SCALE_OFFSET)
         ELSE result,
         rightShift(binMul(currentBase, currentBase), BIN_SCALE_OFFSET),
         exp \div 2,
         \/ wrapped
         \/ (exp % 2 = 1 /\ binWraps(result, currentBase))
         \/ binWraps(currentBase, currentBase))

\* BinHelper.power: [ok, value, wrapped]; ok is FALSE when SafeMath.div
\* aborts on a zero divisor
power(base, exponent) ==
  IF exponent = 0 THEN [ok |-> TRUE, value |-> binOne, wrapped |-> FALSE]
  ELSE LET exp == IF exponent < 0 THEN 0 - exponent ELSE exponent
           p == powerLoop(binOne, base, exp, FALSE)
           oneSquared == leftShift(1, BIN_SCALE_OFFSET * 2)
       IN IF exponent < 0
          THEN IF p.value = 0
               THEN [ok |-> FALSE, value |-> 0, wrapped |-> TRUE]
               ELSE [ok |-> TRUE, value |-> oneSquared \div p.value, wrapped |-> TRUE]
          ELSE [ok |-> TRUE, value |-> p.value, wrapped |-> p.wrapped]

getPriceFromId(id, binStep) ==
  IF ~(binStep # 0 /\ binStep <= BIN_BASIS_POINT_MAX)
  THEN [ok |-> FALSE, value |-> 0, wrapped |-> FALSE]
  ELSE power(_getBPValue(binStep), id - BIN_REAL_ID_SHIFT)

\* One price computed from a bin id, with the price of the mirrored id
BinIds == 0..(2 * BIN_REAL_ID_SHIFT)
BinSteps == {1, 5, 10, 20, 25, 50, 100}

PriceFromId ==
  \E id \in BinIds, binStep \in BinSteps :
    /\ ~frame.active
    /\ calc' = [op |-> "getPriceFromId", id |-> id, binStep |-> binStep,
                price |-> getPriceFromId(id, binStep),
                mirrored |-> getPriceFromId(2 * BIN_REAL_ID_SHIFT - id, binStep)]
    /\ UNCHANGED <<ledgerVars, now, frame, lastFlash>>

\* ------------------------------------------------------------------------
\* The pool under every entry point of the model
\* ------------------------------------------------------------------------
AddSupportedAsset == AddSupportedAssetOf(Assets)
SetAssetPair == SetAssetPairOf(Assets, Pairs)
SetCloseFactor == SetCloseFactorOf(CloseFactorValues)
SetInterestRateParams == SetInterestRateParamsOf(RateParamCalls)
SetFlashLoanFee == SetFlashLoanFeeOf(FlashLoanFeeValues)
SetReserveFactor == SetReserveFactorOf(ReserveFactorValues)
SetLiquidationBonusRange == SetLiquidationBonusRangeOf(BonusValues)
DepositCollateral == DepositCollateralOf(DepositCalls, MaxSupply)
WithdrawCollateral == WithdrawCollateralOf(WithdrawCalls)
EmergencyWithdraw == EmergencyWithdrawOf(EmergencyCalls)
Borrow == BorrowOf(BorrowCalls)
Repay == RepayOf(RepayCalls)
Liquidate == LiquidateOf(LiquidateCalls)
FlashLoanStart == FlashLoanStartOf(FlashCalls)
CallbackRepay == CallbackRepayOf(CallbackRepayments)
WithdrawTreasuryReserves == WithdrawTreasuryReservesOf(TreasuryCalls)
SetAssetPrice == SetAssetPriceOf(PriceCalls)

Next ==
  \/ DepositCollateral
  \/ WithdrawCollateral
  \/ EmergencyWithdraw
  \/ Borrow
  \/ Repay
  \/ Liquidate
  \/ FlashLoanStart
  \/ CallbackRepay
  \/ FlashLoanEnd
  \/ WithdrawTreasuryReserves
  \/ AddSupportedAsset
  \/ SetAssetPrice
  \/ SetAssetPair
  \/ Pause
  \/ Unpause
  \/ Tick
  \/ SetCloseFactor
  \/ SetLiquidationBonusRange
  \/ SetInterestRateParams
  \/ TransferOwnership
  \/ SetTWAPPeriod
  \/ SetReserveFactor
  \/ SetFlashLoanFee
  \/ SetFlashLoanEnabled
  \/ SafeMathCall
  \/ LiquidationValuation
  \/ PriceFromId

Spec == Init /\ [][Next]_vars

\* The specifications below restrict the pool to the entry points and the
\* calls that the properties stated under them speak about.

\* The ledger alone: set-up, the six position operations and the clock
NextLedger ==
  \/ AddSupportedAsset
  \/ SetAssetPrice
  \/ DepositCollateral
  \/ WithdrawCollateral
  \/ EmergencyWithdraw
  \/ Borrow
  \/ Repay
  \/ Liquidate
  \/ Tick

SpecLedger == Init /\ [][NextLedger]_vars

\* Two suppliers of the same asset, one of them a borrower
SharedDepositCalls == {<<"u1", "A", 1000>>, <<"u2", "A", 1000>>, <<"u2", "B", 1000>>}
SharedWithdrawCalls == {<<"u1", "A", 400>>}
SharedEmergencyCalls == {<<"u1", "A", 600>>}
SharedBorrowCalls == {<<"u1", "B", 600>>}
SharedRepayCalls == {<<"u1", "B", 1000>>}
DepositShared == DepositCollateralOf(SharedDepositCalls, MaxSupply)
WithdrawShared == WithdrawCollateralOf(SharedWithdrawCalls)
EmergencyShared == EmergencyWithdrawOf(SharedEmergencyCalls)
BorrowShared == BorrowOf(SharedBorrowCalls)
RepayShared == RepayOf(SharedRepayCalls)

NextShared ==
  \/ AddSupportedAsset
  \/ SetAssetPrice
  \/ DepositShared
  \/ WithdrawShared
  \/ EmergencyShared
  \/ BorrowShared
  \/ RepayShared
  \/ Liquidate
  \/ Tick

SpecShared == Init /\ [][NextShared]_vars

\* Flash loans, the calls a receiver can make from its callback, the pause
\* switch and the treasury
MaxFlashSupply == 2000
FlashDepositCalls == {<<"u2", "B", 2000>>}
FlashEmergencyCalls == {<<"u2", "B", 2000>>}
FlashLoanCalls == {<<"u2", "admin", "B", 2000>>, <<"u2", "u2", "B", 2000>>}
FlashPriceCalls == {<<"B", 5>>, <<"B", 10>>}
FlashTreasuryCalls == {<<"admin", "B", 1>>}
DepositFlash == DepositCollateralOf(FlashDepositCalls, MaxFlashSupply)
EmergencyFlash == EmergencyWithdrawOf(FlashEmergencyCalls)
FlashLoanStartFlash == FlashLoanStartOf(FlashLoanCalls)
SetAssetPriceFlash == SetAssetPriceOf(FlashPriceCalls)
TreasuryFlash == WithdrawTreasuryReservesOf(FlashTreasuryCalls)

NextFlash ==
  \/ AddSupportedAsset
  \/ SetAssetPriceFlash
  \/ DepositFlash
  \/ EmergencyFlash
  \/ FlashLoanStartFlash
  \/ CallbackRepay
  \/ FlashLoanEnd
  \/ TreasuryFlash
  \/ Pause
  \/ Unpause

SpecFlash == Init /\ [][NextFlash]_vars

\* A borrower who also supplies the asset borrowed
AccrualDepositCalls == {<<"u1", "A", 1000>>, <<"u2", "B", 1000>>, <<"u1", "B", 500>>}
AccrualPriceCalls == {<<"A", 10>>, <<"B", 10>>}
DepositAccrual == DepositCollateralOf(AccrualDepositCalls, MaxSupply)
SetAssetPriceAccrual == SetAssetPriceOf(AccrualPriceCalls)

NextAccrual ==
  \/ AddSupportedAsset
  \/ SetAssetPriceAccrual
  \/ DepositAccrual
  \/ BorrowShared
  \/ RepayShared
  \/ Tick

SpecAccrual == Init /\ [][NextAccrual]_vars

\* Prices from the oracle pairs: the asset borrowed has no manual price
OraclePriceCalls == {<<"A", 10>>}
OracleBorrowCalls == {<<"u1", "B", 300>>, <<"u1", "B", 600>>}
SetAssetPriceOracle == SetAssetPriceOf(OraclePriceCalls)
BorrowOracle == BorrowOf(OracleBorrowCalls)

NextOracle ==
  \/ AddSupportedAsset
  \/ SetAssetPriceOracle
  \/ SetAssetPair
  \/ DepositCollateral
  \/ BorrowOracle

SpecOracle == Init /\ [][NextOracle]_vars

\* The liquidation tuning alone: every bonus range and close factor the
\* setters accept
NextBonus ==
  \/ SetLiquidationBonusRange
  \/ SetCloseFactor

SpecBonus == Init /\ [][NextBonus]_vars

\* Positions opened and closed again: a borrower who repays and withdraws
\* everything, a supplier who leaves, and a liquidator who may repay the
\* whole debt once the owner has raised the close factor
MemberPriceCalls == {<<"A", 7>>, <<"A", 10>>, <<"B", 10>>}
MemberWithdrawCalls == {<<"u1", "A", 1000>>}
MemberBorrowCalls == {<<"u1", "B", 600>>}
MemberRepayCalls == {<<"u1", "B", 1000>>}
MemberLiquidateCalls == {<<"u2", "u1", "A", "B", 1000>>}

MemberCloseFactors == {5000, 10000}

SetAssetPriceMember == SetAssetPriceOf(MemberPriceCalls)
SetCloseFactorMember == SetCloseFactorOf(MemberCloseFactors)
WithdrawMember == WithdrawCollateralOf(MemberWithdrawCalls)
BorrowMember == BorrowOf(MemberBorrowCalls)
RepayMember == RepayOf(MemberRepayCalls)
LiquidateMember == LiquidateOf(MemberLiquidateCalls)

NextMember ==
  \/ AddSupportedAsset
  \/ SetAssetPriceMember
  \/ SetCloseFactorMember
  \/ DepositCollateral
  \/ WithdrawMember
  \/ EmergencyWithdraw
  \/ BorrowMember
  \/ RepayMember
  \/ LiquidateMember

SpecMember == Init /\ [][NextMember]_vars

\* Every guarded entry point, with a flash loan that can succeed or abort
GuardFlashCalls == {<<"u2", "u2", "B", 1000>>}
GuardRepayments == {999, 1000}
GuardTreasuryCalls == {<<"admin", "B", 0>>}
FlashLoanStartGuard == FlashLoanStartOf(GuardFlashCalls)
CallbackRepayGuard == CallbackRepayOf(GuardRepayments)
TreasuryGuard == WithdrawTreasuryReservesOf(GuardTreasuryCalls)

NextGuard ==
  \/ AddSupportedAsset
  \/ SetAssetPriceMember
  \/ SetCloseFactorMember
  \/ DepositCollateral
  \/ WithdrawMember
  \/ EmergencyWithdraw
  \/ BorrowMember
  \/ RepayMember
  \/ LiquidateMember
  \/ FlashLoanStartGuard
  \/ CallbackRepayGuard
  \/ FlashLoanEnd
  \/ TreasuryGuard

SpecGuard == Init /\ [][NextGuard]_vars

\* Two borrowers of the same asset, accruing at different times
DebtsDepositCalls == {<<"u1", "A", 1000>>, <<"admin", "A", 1000>>, <<"u2", "B", 1000>>}
DebtsPriceCalls == {<<"A", 10>>, <<"A", 4>>, <<"B", 10>>}
DebtsBorrowCalls == {<<"u1", "B", 400>>, <<"admin", "B", 300>>}
DebtsRepayCalls == {<<"u1", "B", 1000>>, <<"admin", "B", 1000>>}
DebtsLiquidateCalls == {<<"u2", "u1", "A", "B", 1000>>}
DepositDebts == DepositCollateralOf(DebtsDepositCalls, MaxSupply)
SetAssetPriceDebts == SetAssetPriceOf(DebtsPriceCalls)
BorrowDebts == BorrowOf(DebtsBorrowCalls)
RepayDebts == RepayOf(DebtsRepayCalls)
LiquidateDebts == LiquidateOf(DebtsLiquidateCalls)

NextDebts ==
  \/ AddSupportedAsset
  \/ SetAssetPriceDebts
  \/ DepositDebts
  \/ BorrowDebts
  \/ RepayDebts
  \/ LiquidateDebts
  \/ Tick

SpecDebts == Init /\ [][NextDebts]_vars

\* Collateral that earns supply interest before it is seized: u2 borrows the
\* asset u1 has supplied, time passes, and u1 is liquidated
IndexPriceCalls == {<<"A", 10>>, <<"A", 7>>, <<"B", 10>>}
IndexBorrowCalls == {<<"u1", "B", 600>>, <<"u2", "A", 600>>}
IndexWithdrawCalls == {<<"u1", "A", 100>>}
IndexLiquidateCalls == {<<"u2", "u1", "A", "B", 200>>}
SetAssetPriceIndex == SetAssetPriceOf(IndexPriceCalls)
BorrowIndex == BorrowOf(IndexBorrowCalls)
WithdrawIndex == WithdrawCollateralOf(IndexWithdrawCalls)
LiquidateIndex == LiquidateOf(IndexLiquidateCalls)

NextIndex ==
  \/ AddSupportedAsset
  \/ SetAssetPriceIndex
  \/ DepositCollateral
  \/ WithdrawIndex
  \/ BorrowIndex
  \/ LiquidateIndex
  \/ Tick

SpecIndex == Init /\ [][NextIndex]_vars

\* The owner's entry points, each with a value it accepts and one it
\* rejects, over a pool in which one supplier's flash loans leave a fee for
\* the treasury
AdminAssets == {"B"}
AdminPriceCalls == {<<"B", 10>>}
AdminPairs == {"pairLive"}
AdminCloseFactors == {999, 10000}
AdminBonusValues == {1000}
AdminFlashCalls == {<<"u2", "u2", "B", 2000>>}
AdminRepayments == {2001}
AdminTreasuryCalls == {<<c, "B", 1>> : c \in Callers}

AddSupportedAssetAdmin == AddSupportedAssetOf(AdminAssets)
SetAssetPriceAdmin == SetAssetPriceOf(AdminPriceCalls)
SetAssetPairAdmin == SetAssetPairOf(AdminAssets, AdminPairs)
SetCloseFactorAdmin == SetCloseFactorOf(AdminCloseFactors)
SetLiquidationBonusRangeAdmin == SetLiquidationBonusRangeOf(AdminBonusValues)
FlashLoanStartAdmin == FlashLoanStartOf(AdminFlashCalls)
CallbackRepayAdmin == CallbackRepayOf(AdminRepayments)
TreasuryAdmin == WithdrawTreasuryReservesOf(AdminTreasuryCalls)

NextAdmin ==
  \/ AddSupportedAssetAdmin
  \/ SetAssetPriceAdmin
  \/ SetAssetPairAdmin
  \/ SetTWAPPeriod
  \/ SetInterestRateParams
  \/ SetReserveFactor
  \/ SetCloseFactorAdmin
  \/ SetLiquidationBonusRangeAdmin
  \/ SetFlashLoanFee
  \/ Pause
  \/ Unpause
  \/ TransferOwnership
  \/ DepositFlash
  \/ FlashLoanStartAdmin
  \/ CallbackRepayAdmin
  \/ FlashLoanEnd
  \/ TreasuryAdmin

SpecAdmin == Init /\ [][NextAdmin]_vars

TypeOK ==
  /\ \A u \in Callers, a \in Assets : userCollateral[u][a] \in Nat /\ userDebt[u][a] \in Nat
  /\ \A a \in Assets : tokenBalance[a] \in Nat /\ totalCollateral[a] \in Nat

\* ------------------------------------------------------------------------
\* Properties
\* ------------------------------------------------------------------------
HF_BUFFER == (PRICE_PRECISION * 11) \div 10

healthForLiquidation(borrower, collateralToken, debtToken) ==
  _calculateAccountHealth(
    _accrueInterest(
      _updateSupplyIndex(_updateSupplyIndex(Cur, now, collateralToken), now, debtToken),
      now, borrower, debtToken),
    now, borrower)

LiquidationAmounts == {300}

\* C2: liquidate fails whenever the borrower's health factor, computed after
\* accruing the borrower's debt interest, is at least 1.0, a borrower with a
\* borrow value of zero included; a liquidation that went through found the
\* health factor below 1.0
C2_HealthyNotLiquidated ==
  /\ \A borrower \in Users, ct \in Assets, dt \in Assets :
       LET health == healthForLiquidation(borrower, ct, dt)
       IN (health.ok /\ (health.totalBorrowValue = 0
                         \/ health.healthFactor >= PRICE_PRECISION))
            => \A liquidator \in Users \ {borrower}, amount \in LiquidationAmounts :
                 ~liquidate(Cur, now, liquidator, borrower, ct, dt, amount).ok
  /\ \A c \in LiquidateCalls :
       liquidate(Cur, now, c[1], c[2], c[3], c[4], c[5]).ok
         => healthForLiquidation(c[2], c[3], c[4]).healthFactor < PRICE_PRECISION

\* A borrower with debt and a health factor of at least 1.0 whom a
\* liquidator with funds tries to liquidate
C2_Witness ==
  LET health == healthForLiquidation("u1", "A", "B")
  IN /\ userDebt["u1"]["B"] > 0
     /\ userCollateral["u1"]["A"] >= 300
     /\ ~paused /\ ~reentrancyGuard
     /\ health.ok
     /\ health.healthFactor >= PRICE_PRECISION
     /\ ~liquidate(Cur, now, "u2", "u1", "A", "B", 300).ok

\* The caller's collateral with the supply interest earned up to now
indexAdjustedCollateral(user, tokenAddress) ==
  (userCollateral[user][tokenAddress]
     * _calculateCurrentSupplyIndex(Cur, now, tokenAddress))
    \div userSupplyIndex[user][tokenAddress]

\* The caller's debt with the interest accrued up to now
accruedDebt(user, tokenAddress) ==
  _accrueInterest(_updateSupplyIndex(Cur, now, tokenAddress), now, user,
                  tokenAddress).userDebt[user][tokenAddress]

OverdrawAmounts == {400, 600, 1000}

\* C3: no collateral and no debt is ever below zero; a withdrawCollateral or
\* emergencyWithdraw of more than the caller's index-adjusted collateral
\* fails; a repay removes at most the outstanding debt; a liquidation
\* seizes at most the borrower's collateral
C3_NoNegativeBalances ==
  /\ \A u \in Callers, a \in Assets :
       userCollateral[u][a] >= 0 /\ userDebt[u][a] >= 0
  /\ \A u \in Users, a \in Assets, amount \in OverdrawAmounts :
       amount > indexAdjustedCollateral(u, a) =>
         /\ ~withdrawCollateral(Cur, now, u, a, amount).ok
         /\ ~emergencyWithdraw(Cur, now, u, a, amount).ok
  /\ \A c \in RepayCalls :
       LET r == repay(Cur, now, c[1], c[2], c[3])
       IN r.ok => /\ r.repaid <= accruedDebt(c[1], c[2])
                  /\ r.st.userDebt[c[1]][c[2]] = accruedDebt(c[1], c[2]) - r.repaid
  /\ \A c \in LiquidateCalls :
       LET r == liquidate(Cur, now, c[1], c[2], c[3], c[4], c[5])
       IN r.ok => /\ r.seized <= userCollateral[c[2]][c[3]]
                  /\ r.repaid <= accruedDebt(c[2], c[4])

\* A supplier asks for more than the collateral held, in a pool that holds
\* enough of the token
C3_Witness ==
  /\ userCollateral["u1"]["A"] = 600
  /\ totalCollateral["A"] >= 1000
  /\ tokenBalance["A"] >= 1000
  /\ ~paused /\ ~reentrancyGuard
  /\ indexAdjustedCollateral("u1", "A") < 1000
  /\ ~withdrawCollateral(Cur, now, "u1", "A", 1000).ok
  /\ ~emergencyWithdraw(Cur, now, "u1", "A", 1000).ok

\* C6: a borrow that succeeds leaves the total borrow value at most the
\* collateral value times collateralFactor / 10000; with 1000 of collateral
\* at a factor of 75% and equal prices a borrow of 600 succeeds and a
\* further borrow of 200 fails
C6_BorrowWithinCollateralFactor ==
  /\ \A c \in BorrowCalls \cup {<<"u1", "B", 200>>} :
       LET r == borrow(Cur, now, c[1], c[2], c[3])
           h == _calculateAccountHealth(r.st, now, c[1])
       IN r.ok => h.totalBorrowValue
                    <= mulBP(h.totalCollateralValue, params.collateralFactor)
  /\ (/\ userCollateral["u1"] = [A |-> 1000, B |-> 0]
      /\ userDebt["u1"] = [A |-> 0, B |-> 0]
      /\ userSupplyIndex["u1"]["A"] = supplyIndex["A"]
      /\ _getAssetPrice(Cur, "A") = _getAssetPrice(Cur, "B")
      /\ _getAssetPrice(Cur, "A") > 0
      /\ params.collateralFactor = 7500
      /\ tokenBalance["B"] >= 800
      /\ ~paused /\ ~reentrancyGuard)
       => LET r == borrow(Cur, now, "u1", "B", 600)
          IN r.ok /\ ~borrow(r.st, now, "u1", "B", 200).ok

\* The 600 have been borrowed against the 1000, and the further 200 fail
C6_Witness ==
  /\ userCollateral["u1"]["A"] = 1000
  /\ userDebt["u1"]["B"] = 600
  /\ _getAssetPrice(Cur, "A") = _getAssetPrice(Cur, "B")
  /\ tokenBalance["B"] >= 200
  /\ ~borrow(Cur, now, "u1", "B", 200).ok

\* C8: no step lowers the supply index of an asset
C8_SupplyIndexMonotone ==
  [][\A a \in Assets : supplyIndex'[a] >= supplyIndex[a]]_vars

\* An index that has grown
C8_Witness ==
  \E a \in Assets : supplyIndex[a] > InitialSupplyIndex

\* C4: a flash loan whose callback returns false, or after whose callback
\* the pool's balance is below the balance before the principal transfer
\* plus the fee, is rejected as a whole: every ledger variable and the
\* pool's token balances are as before the call
C4_FlashLoanAtomic ==
  lastFlash.op \in {"flashLoan", "flashLoanAborted"} =>
    ((~lastFlash.callbackSuccess
      \/ lastFlash.balanceAfter < lastFlash.balanceBefore + lastFlash.fee)
       => /\ lastFlash.op = "flashLoanAborted"
          /\ Cur = lastFlash.before
          /\ ~frame.active)

\* The callback returned true and sent the principal back without the fee
C4_Witness ==
  /\ lastFlash.op = "flashLoanAborted"
  /\ lastFlash.callbackSuccess
  /\ lastFlash.fee > 0
  /\ lastFlash.balanceAfter >= lastFlash.balanceBefore
  /\ lastFlash.balanceAfter < lastFlash.balanceBefore + lastFlash.fee

\* C5: while the pool is inside the flash-loan callback, every call of the
\* receiver into a state-mutating entry point of the pool fails
C5_NestedCallsFail ==
  frame.active =>
    /\ \A c \in FlashDepositCalls :
         ~depositCollateral(Cur, now, frame.receiver, c[2], c[3]).ok
    /\ \A c \in FlashEmergencyCalls :
         /\ ~emergencyWithdraw(Cur, now, frame.receiver, c[2], c[3]).ok
         /\ ~withdrawCollateral(Cur, now, frame.receiver, c[2], c[3]).ok
    /\ \A c \in BorrowCalls : ~borrow(Cur, now, frame.receiver, c[2], c[3]).ok
    /\ \A c \in RepayCalls : ~repay(Cur, now, frame.receiver, c[2], c[3]).ok
    /\ \A c \in LiquidateCalls :
         ~liquidate(Cur, now, frame.receiver, c[2], c[3], c[4], c[5]).ok
    /\ \A c \in FlashLoanCalls :
         ~flashLoanBegin(Cur, frame.receiver, c[2], c[3], c[4]).ok
    /\ \A c \in FlashTreasuryCalls :
         ~withdrawTreasuryReserves(Cur, frame.receiver, c[2], c[3]).ok
    /\ \A c \in FlashPriceCalls :
         ~setAssetPrice(Cur, frame.receiver, c[1], c[2]).ok
    /\ \A a \in Assets : ~addSupportedAsset(Cur, frame.receiver, a).ok
    /\ ~pause(Cur, frame.receiver).ok

\* C7: while the contract is paused, depositCollateral, withdrawCollateral,
\* borrow, repay, liquidate, flashLoan and withdrawTreasuryReserves fail
C7_PausedBlocksBalanceChanges ==
  (paused /\ ~frame.active) =>
    /\ \A c \in FlashDepositCalls \cup DepositCalls :
         ~depositCollateral(Cur, now, c[1], c[2], c[3]).ok
    /\ \A c \in FlashEmergencyCalls \cup WithdrawCalls :
         ~withdrawCollateral(Cur, now, c[1], c[2], c[3]).ok
    /\ \A c \in BorrowCalls : ~borrow(Cur, now, c[1], c[2], c[3]).ok
    /\ \A c \in RepayCalls : ~repay(Cur, now, c[1], c[2], c[3]).ok
    /\ \A c \in LiquidateCalls :
         ~liquidate(Cur, now, c[1], c[2], c[3], c[4], c[5]).ok
    /\ \A c \in FlashLoanCalls :
         ~flashLoanBegin(Cur, c[1], c[2], c[3], c[4]).ok
    /\ \A c \in FlashTreasuryCalls :
         ~withdrawTreasuryReserves(Cur, c[1], c[2], c[3]).ok

\* The supply index of an asset once it is updated to now
updatedIndex(tokenAddress) ==
  _updateSupplyIndex(Cur, now, tokenAddress).supplyIndex[tokenAddress]

\* C9: deposit, withdraw, borrow, repay, liquidate and flash loan update the
\* asset's supply index and accrue the affected user's debt interest up to
\* now before they change a balance or move the last-update timestamp: the
\* debt they leave is the accrued debt, changed by the operation's amount
C9_AccrualBeforeMutation ==
  /\ \A c \in AccrualDepositCalls :
       LET r == depositCollateral(Cur, now, c[1], c[2], c[3])
       IN r.ok => /\ r.st.supplyIndex[c[2]] = updatedIndex(c[2])
                  /\ r.st.userDebt[c[1]][c[2]] = accruedDebt(c[1], c[2])
  /\ \A c \in WithdrawCalls \cup {<<"u1", "B", 500>>} :
       LET r == withdrawCollateral(Cur, now, c[1], c[2], c[3])
       IN r.ok => /\ r.st.supplyIndex[c[2]] = updatedIndex(c[2])
                  /\ r.st.userDebt[c[1]][c[2]] = accruedDebt(c[1], c[2])
  /\ \A c \in SharedBorrowCalls :
       LET r == borrow(Cur, now, c[1], c[2], c[3])
       IN r.ok => /\ r.st.supplyIndex[c[2]] = updatedIndex(c[2])
                  /\ r.st.userDebt[c[1]][c[2]] = accruedDebt(c[1], c[2]) + c[3]
  /\ \A c \in SharedRepayCalls :
       LET r == repay(Cur, now, c[1], c[2], c[3])
       IN r.ok => /\ r.st.supplyIndex[c[2]] = updatedIndex(c[2])
                  /\ r.st.userDebt[c[1]][c[2]] = accruedDebt(c[1], c[2]) - r.repaid
  /\ \A c \in LiquidateCalls :
       LET r == liquidate(Cur, now, c[1], c[2], c[3], c[4], c[5])
       IN r.ok => /\ r.st.supplyIndex[c[3]] = updatedIndex(c[3])
                  /\ r.st.supplyIndex[c[4]] = updatedIndex(c[4])
                  /\ r.st.userDebt[c[2]][c[4]] = accruedDebt(c[2], c[4]) - r.repaid
  /\ \A c \in {<<"u2", "u2", "B", 100>>} :
       LET r == flashLoanBegin(Cur, c[1], c[2], c[3], c[4])
       IN r.ok => r.st.supplyIndex[c[3]] = updatedIndex(c[3])

\* The value of the user's collateral in an asset, nothing for an asset
\* that is not listed, not supported or without a price
pricedCollateralValue(user, tokenAddress) ==
  IF /\ tokenAddress \in userAssets[user]
     /\ tokenAddress \in supportedAssets
     /\ _getAssetPrice(Cur, tokenAddress) > 0
  THEN (indexAdjustedCollateral(user, tokenAddress) * _getAssetPrice(Cur, tokenAddress))
         \div Pow10(tokenDecimals(tokenAddress))
  ELSE 0

owesUnpriced(user) ==
  \E a \in userAssets[user] \cap supportedAssets :
    userDebt[user][a] > 0 /\ _getAssetPrice(Cur, a) = 0

\* The price of every listed, supported asset of the user can be read
pricesReadable(user) ==
  \A a \in userAssets[user] \cap supportedAssets : _getAssetPriceOK(Cur, a)

\* C10: the account-health computation fails when the user has debt in a
\* listed, supported asset whose resolved price is zero; otherwise, when
\* every price can be read, it succeeds, and an asset without a price adds
\* nothing to the collateral value
C10_UnpricedDebtFails ==
  \A u \in Users :
    LET h == _calculateAccountHealth(Cur, now, u)
    IN IF owesUnpriced(u) \/ ~pricesReadable(u) THEN ~h.ok
       ELSE /\ h.ok
            /\ h.totalCollateralValue
                 = pricedCollateralValue(u, "A") + pricedCollateralValue(u, "B")

\* A borrower whose debt asset has lost its price, beside a supplier who
\* holds only collateral in that asset
C10_Witness ==
  /\ userDebt["u1"]["B"] > 0
  /\ "B" \in supportedAssets
  /\ _getAssetPrice(Cur, "B") = 0
  /\ ~_calculateAccountHealth(Cur, now, "u1").ok
  /\ userCollateral["u2"]["B"] > 0
  /\ userDebt["u2"]["B"] = 0
  /\ _calculateAccountHealth(Cur, now, "u2").ok
  /\ _calculateAccountHealth(Cur, now, "u2").totalCollateralValue = 0

\* Withdrawals a supplier may ask for
LiquidityWithdrawAmounts == {400, 700, 1000}

\* C11: a withdrawCollateral whose amount exceeds the asset's available
\* liquidity, totalCollateral - totalBorrows, fails
C11_WithdrawBeyondLiquidityFails ==
  \A u \in Users : \A a \in Assets : \A amount \in LiquidityWithdrawAmounts :
    amount > totalCollateral[a] - totalBorrows[a]
      => ~withdrawCollateral(Cur, now, u, a, amount).ok

\* The bonus in basis points for a health factor, interpolated between the
\* two ends of the configured range
interpolatedBonus(healthFactor, bonusMin, bonusMax) ==
  IF healthFactor >= PRICE_PRECISION THEN bonusMin
  ELSE IF healthFactor <= PRICE_PRECISION \div 2 THEN bonusMax
  ELSE bonusMax - ((healthFactor - PRICE_PRECISION \div 2) * (bonusMax - bonusMin))
                    \div (PRICE_PRECISION \div 2)

CloseFactorAmounts == {100, 300, 1000}

\* What one liquidation took from the borrower's debt
debtRepaid(r, borrower, debtToken) ==
  accruedDebt(borrower, debtToken) - r.st.userDebt[borrower][debtToken]

\* What one liquidation took from the borrower's collateral
collateralSeized(r, borrower, collateralToken) ==
  userCollateral[borrower][collateralToken]
    - r.st.userCollateral[borrower][collateralToken]

MaxHealthFactor == 20

\* Health factors from zero to twice 1.0, the sentinel of a debt-free
\* account among them
HealthFactors == 0..MaxHealthFactor

accrualStep(L, t, user, tokenAddress) ==
  _accrueInterest(_updateSupplyIndex(L, t, tokenAddress), t, user, tokenAddress)

\* C14: running the accrual step a second time with no time elapsed since
\* the first leaves the user's debt, totalBorrows, the treasury reserves, the
\* supply index and the update timestamps unchanged
C14_AccrualIdempotent ==
  \A u \in Users, a \in Assets :
    LET once == accrualStep(Cur, now, u, a)
        twice == accrualStep(once, now, u, a)
    IN /\ twice.userDebt = once.userDebt
       /\ twice.totalBorrows = once.totalBorrows
       /\ twice.treasuryReserves = once.treasuryReserves
       /\ twice.supplyIndex = once.supplyIndex
       /\ twice.supplyIndexLastUpdate = once.supplyIndexLastUpdate
       /\ twice.userLastUpdate = once.userLastUpdate
       /\ twice = once

\* A year after the borrow the first run charges interest, pays the
\* treasury its share and raises the supply index
C14_Witness ==
  LET once == accrualStep(Cur, now, "u1", "B")
  IN /\ once.userDebt["u1"]["B"] > userDebt["u1"]["B"]
     /\ once.totalBorrows["B"] > totalBorrows["B"]
     /\ once.treasuryReserves["B"] > treasuryReserves["B"]
     /\ once.supplyIndex["B"] > supplyIndex["B"]
     /\ once.supplyIndexLastUpdate["B"] = now
     /\ once.userLastUpdate["u1"]["B"] = now
     /\ accrualStep(once, now, "u1", "B") = once

\* The user's position in the asset is empty and the asset is still in the
\* user's membership list
emptyButListed(L, user, tokenAddress) ==
  /\ L.userCollateral[user][tokenAddress] = 0
  /\ L.userDebt[user][tokenAddress] = 0
  /\ tokenAddress \in L.userAssets[user]

\* C15: after every successful withdraw, emergency withdraw, repay and
\* liquidation, an asset in which the user's collateral and debt are both
\* zero is not in that user's asset membership list
C15_EmptyPositionUnlisted ==
  /\ \A c \in MemberWithdrawCalls :
       LET r == withdrawCollateral(Cur, now, c[1], c[2], c[3])
       IN r.ok => ~emptyButListed(r.st, c[1], c[2])
  /\ \A c \in EmergencyCalls :
       LET r == emergencyWithdraw(Cur, now, c[1], c[2], c[3])
       IN r.ok => ~emptyButListed(r.st, c[1], c[2])
  /\ \A c \in MemberRepayCalls :
       LET r == repay(Cur, now, c[1], c[2], c[3])
       IN r.ok => ~emptyButListed(r.st, c[1], c[2])
  /\ \A c \in MemberLiquidateCalls :
       LET r == liquidate(Cur, now, c[1], c[2], c[3], c[4], c[5])
       IN r.ok => /\ ~emptyButListed(r.st, c[2], c[3])
                  /\ ~emptyButListed(r.st, c[2], c[4])

\* C16: in every account-health snapshot isHealthy is true exactly when the
\* health factor is at least 1.0; for an account whose total borrow value is
\* zero the health factor is the sentinel and isHealthy is true
C16_HealthyIffFactorAtLeastOne ==
  \A u \in Users :
    LET snapshot == getAccountHealth(Cur, now, u)
        totalBorrowValue == snapshot.out[2]
        healthFactor == snapshot.out[3]
        isHealthy == snapshot.out[4]
    IN snapshot.ok =>
         /\ isHealthy <=> healthFactor >= PRICE_PRECISION
         /\ totalBorrowValue = 0 => (healthFactor = HF_NO_DEBT /\ isHealthy)

TreasuryAmounts == {0, 1, 2, 3}

\* C17: withdrawTreasuryReserves succeeds only when the caller is the owner
\* and the amount is at most the asset's treasury reserves and at most its
\* available liquidity max(totalCollateral - totalBorrows, 0); a call that
\* fails leaves the reserves unchanged, and a call that succeeds lowers them
\* by exactly the amount
C17_TreasuryWithdrawal ==
  \A caller \in Callers, a \in Assets, amount \in TreasuryAmounts :
    LET r == withdrawTreasuryReserves(Cur, caller, a, amount)
        liquidity == IF totalCollateral[a] - totalBorrows[a] > 0
                     THEN totalCollateral[a] - totalBorrows[a] ELSE 0
    IN IF r.ok
       THEN /\ caller = owner
            /\ amount <= treasuryReserves[a]
            /\ amount <= liquidity
            /\ r.st.treasuryReserves
                 = [treasuryReserves EXCEPT ![a] = @ - amount]
            /\ r.st.tokenBalance = [tokenBalance EXCEPT ![a] = @ - amount]
       ELSE r.st.treasuryReserves = treasuryReserves

\* Reserves collected from a flash-loan fee after the suppliers have left:
\* the pool holds the tokens, yet the available liquidity is zero and the
\* owner's withdrawal fails, as does any other caller's
C17_WitnessNoLiquidity ==
  /\ treasuryReserves["B"] >= 1
  /\ tokenBalance["B"] >= 1
  /\ totalCollateral["B"] = 0
  /\ ~reentrancyGuard
  /\ ~withdrawTreasuryReserves(Cur, owner, "B", 1).ok
  /\ ~withdrawTreasuryReserves(Cur, "u2", "B", 1).ok

\* Reserves that the owner can withdraw
C17_Witness ==
  /\ treasuryReserves["B"] >= 1
  /\ withdrawTreasuryReserves(Cur, owner, "B", 1).ok
  /\ ~withdrawTreasuryReserves(Cur, "u2", "B", 1).ok
  /\ ~withdrawTreasuryReserves(Cur, owner, "B", 3).ok

\* Every admin entry point called by the caller with arguments it accepts
\* from the owner
adminCalls(L, caller) ==
  { addSupportedAsset(L, caller, "A"),
    setAssetPrice(L, caller, "B", 10),
    setAssetPair(L, caller, "B", "pairLive"),
    setTWAPPeriod(L, caller, 60),
    setInterestRateParams(L, caller, 300, 7000, 500, 8000),
    setReserveFactor(L, caller, 2000),
    setCloseFactor(L, caller, 10000),
    setLiquidationBonusRange(L, caller, 1000, 1000),
    setFlashLoanFee(L, caller, 10),
    setFlashLoanEnabled(L, caller, FALSE),
    pause(L, caller),
    unpause(L, caller),
    transferOwnership(L, caller, "u1"),
    withdrawTreasuryReserves(L, caller, "B", 0),
    withdrawTreasuryReserves(L, caller, "B", 1) }

\* Each of them fails and changes nothing
rejected(L, caller) ==
  \A r \in adminCalls(L, caller) : ~r.ok /\ r.st = L

\* Each of them gets past the owner check: it succeeds unless one of its
\* other asserts fails
accepted(L, caller) ==
  /\ addSupportedAsset(L, caller, "A").ok
  /\ setAssetPrice(L, caller, "B", 10).ok
  /\ setAssetPair(L, caller, "B", "pairLive").ok <=> "B" \in L.supportedAssets
  /\ setTWAPPeriod(L, caller, 60).ok
  /\ setInterestRateParams(L, caller, 300, 7000, 500, 8000).ok
  /\ setReserveFactor(L, caller, 2000).ok
  /\ setCloseFactor(L, caller, 10000).ok
  /\ setLiquidationBonusRange(L, caller, 1000, 1000).ok
  /\ setFlashLoanFee(L, caller, 10).ok
  /\ setFlashLoanEnabled(L, caller, FALSE).ok
  /\ pause(L, caller).ok <=> ~L.paused
  /\ unpause(L, caller).ok <=> L.paused
  /\ transferOwnership(L, caller, "u1").ok
  /\ withdrawTreasuryReserves(L, caller, "B", 0).ok <=> ~L.reentrancyGuard
  /\ withdrawTreasuryReserves(L, caller, "B", 1).ok
       <=> (/\ ~L.reentrancyGuard
            /\ L.treasuryReserves["B"] >= 1
            /\ L.totalCollateral["B"] - L.totalBorrows["B"] >= 1
            /\ L.tokenBalance["B"] >= 1)

\* C18: every admin entry point fails with no state change when the caller
\* is not the current owner; after transferOwnership the previous owner is
\* rejected and the new owner is accepted
C18_OnlyOwner ==
  /\ \A caller \in Callers \ {owner} : rejected(Cur, caller)
  /\ accepted(Cur, owner)
  /\ \A newOwner \in Callers \ {owner} :
       LET r == transferOwnership(Cur, owner, newOwner)
       IN /\ r.ok
          /\ r.st = [Cur EXCEPT !.owner = newOwner]
          /\ rejected(r.st, owner)
          /\ accepted(r.st, newOwner)

\* Ownership has passed from the deployer to u2 and the treasury holds a
\* fee: the new owner can withdraw it, the deployer cannot
C18_Witness ==
  /\ owner = "u2"
  /\ treasuryReserves["B"] >= 1
  /\ withdrawTreasuryReserves(Cur, "u2", "B", 1).ok
  /\ ~withdrawTreasuryReserves(Cur, "admin", "B", 1).ok
  /\ setAssetPrice(Cur, "u2", "B", 5).ok
  /\ ~setAssetPrice(Cur, "admin", "B", 5).ok

ZeroOrNot == {0, 300}

\* The asset is not supported or the amount is zero
invalidCall(tokenAddress, amount) ==
  tokenAddress \notin supportedAssets \/ amount = 0

\* C19: depositCollateral, withdrawCollateral, borrow, repay, liquidate and
\* flashLoan each fail when the asset is not supported or the amount is zero
C19_InvalidCallsFail ==
  \A u \in Users, a \in Assets, amount \in ZeroOrNot :
    invalidCall(a, amount) =>
      /\ ~depositCollateral(Cur, now, u, a, amount).ok
      /\ ~borrow(Cur, now, u, a, amount).ok
      /\ ~flashLoanBegin(Cur, u, u, a, amount).ok
      /\ ~withdrawCollateral(Cur, now, u, a, amount).ok
      /\ ~repay(Cur, now, u, a, amount).ok
      /\ \A borrower \in Users \ {u}, ct \in Assets :
           ~liquidate(Cur, now, u, borrower, ct, a, amount).ok

\* The price the oracle of the asset's pair yields: the derived price when
\* the two samples can be read and averaged, nothing otherwise
oracleYield(tokenAddress) ==
  LET derived == oraclePrice(assetPair[tokenAddress], params.twapPeriod)
  IN IF assetPair[tokenAddress] # "" /\ derived.ok THEN derived.price ELSE 0

\* C20: price resolution returns the oracle's derived price whenever a pair
\* is configured and that price is positive; otherwise it returns the manual
\* price if positive, otherwise zero: a manual price never overrides a
\* positive oracle price, and an oracle that yields no positive price falls
\* back to the manual price
C20_PriceResolution ==
  \A a \in Assets :
    /\ _getAssetPriceOK(Cur, a)
    /\ _getAssetPrice(Cur, a) =
         IF oracleYield(a) > 0 THEN oracleYield(a)
         ELSE IF assetPrice[a] > 0 THEN assetPrice[a]
         ELSE 0

\* The same precedence, for the assets whose price resolution returns
C20_PrecedenceWhenReadable ==
  \A a \in Assets :
    _getAssetPriceOK(Cur, a) =>
      _getAssetPrice(Cur, a) =
        IF oracleYield(a) > 0 THEN oracleYield(a)
        ELSE IF assetPrice[a] > 0 THEN assetPrice[a]
        ELSE 0

\* ------------------------------------------------------------------------
\* Flash loans repaid without the fee
\* ------------------------------------------------------------------------
FeeLoanAmounts == {1, 1000, 1111, 1112, 2000}

\* A flash loan whose receiver sends back exactly the principal and whose
\* callback reports success: the result of the check after the callback
principalOnlyLoan(L, caller, receiverAddress, tokenAddress, amount) ==
  LET begun == flashLoanBegin(L, caller, receiverAddress, tokenAddress, amount)
      fr == [token |-> tokenAddress, fee |-> flashLoanFeeOf(L, amount),
             balanceBefore |-> L.tokenBalance[tokenAddress]]
  IN IF ~begun.ok THEN Revert(L)
     ELSE flashLoanFinish(transferIn(begun.st, tokenAddress, amount), fr, TRUE)

\* C21: with a positive flash-loan fee rate, a flash loan whose receiver
\* returns exactly the principal and no fee fails, for every positive loan
\* amount
C21_PrincipalOnlyRepaymentFails ==
  \A amount \in FeeLoanAmounts : \A a \in Assets :
    (params.flashLoanFee > 0 /\ ~frame.active
       /\ flashLoanBegin(Cur, "u2", "u2", a, amount).ok)
      => ~principalOnlyLoan(Cur, "u2", "u2", a, amount).ok

\* The same for the loans whose fee, rounded down, is at least one unit
C21_PrincipalOnlyFailsWhenFeeIsCharged ==
  \A amount \in FeeLoanAmounts : \A a \in Assets :
    (flashLoanFeeOf(Cur, amount) > 0 /\ ~frame.active
       /\ flashLoanBegin(Cur, "u2", "u2", a, amount).ok)
      => ~principalOnlyLoan(Cur, "u2", "u2", a, amount).ok

\* ------------------------------------------------------------------------
\* The borrow rate over the whole utilization range, for the parameter sets
\* the owner can install
\* ------------------------------------------------------------------------
RateBaseValues == {0, 200, 5000, 5001}
RateOptimalValues == {4999, 5000, 8000, 9500, 9501}
RateSlope1Values == {0, 1, 400, 10000, 10001}
RateSlope2Values == {0, 1, 6000, 20000, 20001}
RateCalls == RateBaseValues \X RateOptimalValues \X RateSlope1Values \X RateSlope2Values
SetInterestRateParamsRate == SetInterestRateParamsOf(RateCalls)

NextRate ==
  \/ SetInterestRateParamsRate
  \/ TransferOwnership

SpecRate == Init /\ [][NextRate]_vars

\* The SafeMath libraries on every pair of operands
NextMath ==
  \/ SafeMathCall

SpecMath == Init /\ [][NextMath]_vars

Utilizations == 0..10000

\* The rate the pool charges at a utilization, with the installed parameters
rateAt(utilizationRate) ==
  calculateBorrowRate(utilizationRate, params.baseRate, params.optimalUtilization,
                      params.slope1, params.slope2)

exactResult(op, a, b) ==
  CASE op = "add" -> IF a + b > U256Max THEN MathFail ELSE MathValue(a + b)
    [] op = "sub" -> IF b > a THEN MathFail ELSE MathValue(a - b)
    [] op = "mul" -> IF a * b > U256Max THEN MathFail ELSE MathValue(a * b)
    [] op = "div" -> IF b = 0 THEN MathFail ELSE MathValue(a \div b)
    [] op = "mod" -> IF b = 0 THEN MathFail ELSE MathValue(a % b)

\* C23: every SafeMath operation either returns the exact infinite-precision
\* integer result or fails: add and mul fail when the true result exceeds
\* the largest u256, sub fails when b > a, div and mod fail on a zero divisor
\* and otherwise return the floor quotient and remainder; the two SafeMath
\* implementations agree on every input
C23_SafeMathExact ==
  calc.op # "none" =>
    /\ calc.first = exactResult(calc.op, calc.a, calc.b)
    /\ calc.second = exactResult(calc.op, calc.a, calc.b)
    /\ calc.first = calc.second

\* The same without the multiplication of the library with the u64 fast path
C23_ExactExceptFirstMul ==
  calc.op # "none" =>
    /\ calc.second = exactResult(calc.op, calc.a, calc.b)
    /\ calc.op # "mul" => calc.first = exactResult(calc.op, calc.a, calc.b)
    /\ (calc.op = "mul" /\ calc.a * calc.b <= U256Max) => calc.first = calc.second

\* ------------------------------------------------------------------------
\* The reentrancy flag between operations
\* ------------------------------------------------------------------------
\* The storage each guarded entry point leaves, whether it returns or fails,
\* over the calls of SpecGuard
guardedOutcomes(L, t) ==
  {depositCollateral(L, t, c[1], c[2], c[3]).st : c \in DepositCalls}
    \cup {withdrawCollateral(L, t, c[1], c[2], c[3]).st : c \in MemberWithdrawCalls}
    \cup {emergencyWithdraw(L, t, c[1], c[2], c[3]).st : c \in EmergencyCalls}
    \cup {borrow(L, t, c[1], c[2], c[3]).st : c \in MemberBorrowCalls}
    \cup {repay(L, t, c[1], c[2], c[3]).st : c \in MemberRepayCalls}
    \cup {liquidate(L, t, c[1], c[2], c[3], c[4], c[5]).st : c \in MemberLiquidateCalls}
    \cup {withdrawTreasuryReserves(L, c[1], c[2], c[3]).st : c \in GuardTreasuryCalls}
    \cup {principalOnlyLoan(L, c[1], c[2], c[3], c[4]).st : c \in GuardFlashCalls}

\* C24: the reentrancy flag is clear in every state between top-level
\* operations: each guarded entry point releases it on every exit path,
\* whether the operation succeeded or failed, so a completed or aborted
\* operation never leaves the pool locked
C24_GuardClearBetweenOperations ==
  ~frame.active =>
    /\ ~reentrancyGuard
    /\ \A L \in guardedOutcomes(Cur, now) : ~L.reentrancyGuard

\* A flash loan has just aborted after a liquidation closed the borrower's
\* debt, and the pool is not locked
C24_Witness ==
  /\ ~frame.active
  /\ lastFlash.op = "flashLoanAborted"
  /\ userDebt["u1"]["B"] = 0
  /\ userCollateral["u1"]["A"] \in 1..999
  /\ ~reentrancyGuard

\* ------------------------------------------------------------------------
\* Active and Paused
\* ------------------------------------------------------------------------
\* pause() and unpause() as the claim describes them, in the current state
pauseTransitions ==
  /\ paused \in BOOLEAN
  /\ \A caller \in Callers :
       /\ pause(Cur, caller).ok <=> (caller = owner /\ ~paused)
       /\ pause(Cur, caller).ok => pause(Cur, caller).st = [Cur EXCEPT !.paused = TRUE]
       /\ unpause(Cur, caller).ok <=> (caller = owner /\ paused)
       /\ unpause(Cur, caller).ok => unpause(Cur, caller).st = [Cur EXCEPT !.paused = FALSE]

\* A step that changes the pause flag is a pause() or an unpause() by the
\* owner, or the abort of a flash loan, which undoes what was done inside its
\* callback and puts the flag back to what it was before the loan
pauseFlagStep ==
  paused' # paused =>
    \/ ~paused /\ paused' /\ Cur' = pause(Cur, owner).st
    \/ paused /\ ~paused' /\ Cur' = unpause(Cur, owner).st
    \/ frame.active /\ ~frame'.active /\ Cur' = frame.saved

\* C25: the contract is always either Active or Paused: pause() succeeds
\* only for the owner in Active and moves to Paused, unpause() succeeds only
\* for the owner in Paused and moves to Active, pause when already paused and
\* unpause when not paused fail, and no other operation changes the pause flag
C25_PauseStateMachine == [](pauseTransitions) /\ [][pauseFlagStep]_vars

\* Paused while the pool holds deposits: pause fails for everyone, unpause
\* succeeds for the owner alone
C25_Witness ==
  /\ paused
  /\ tokenBalance["B"] > 0
  /\ \A caller \in Callers : ~pause(Cur, caller).ok
  /\ unpause(Cur, owner).ok
  /\ ~unpause(Cur, "u2").ok

\* ------------------------------------------------------------------------
\* The membership list covers every open position
\* ------------------------------------------------------------------------
\* C26: for every user and asset, in every reachable state, if the user's
\* stored collateral or debt in the asset is positive then the asset is in
\* the user's membership list; so the health computation and the
\* emergency-withdrawal debt check never miss an open debt
C26_OpenPositionsListed ==
  \A u \in Callers :
    /\ \A a \in Assets :
         (userCollateral[u][a] > 0 \/ userDebt[u][a] > 0) => a \in userAssets[u]
    /\ _userHasAnyDebt(Cur, u) <=> \E a \in Assets : userDebt[u][a] > 0
    /\ SumDebtValue(Cur, now, u, userAssets[u]) = SumDebtValue(Cur, now, u, Assets)

\* A borrower with collateral in one asset and debt in another, both listed:
\* the debt check sees the debt and refuses the emergency withdrawal
C26_Witness ==
  /\ userCollateral["u1"]["A"] > 0
  /\ userDebt["u1"]["B"] > 0
  /\ userAssets["u1"] = {"A", "B"}
  /\ _userHasAnyDebt(Cur, "u1")
  /\ ~emergencyWithdraw(Cur, now, "u1", "A", 1).ok

\* ------------------------------------------------------------------------
\* totalBorrows against the users' debts
\* ------------------------------------------------------------------------
RECURSIVE SumStoredDebt(_, _, _)
SumStoredDebt(L, tokenAddress, S) ==
  IF S = {} THEN 0
  ELSE LET u == CHOOSE x \in S : TRUE
       IN L.userDebt[u][tokenAddress] + SumStoredDebt(L, tokenAddress, S \ {u})

\* C27: for every asset, after any sequence of operations and accruals,
\* totalBorrows equals the sum over all users of their stored debt in that
\* asset; so repaying or liquidating every debt in full never underflows
\* totalBorrows
C27_TotalBorrowsIsSumOfDebts ==
  /\ \A a \in Assets : totalBorrows[a] = SumStoredDebt(Cur, a, Callers)
  /\ \A u \in Users, a \in Assets :
       LET accrued == _accrueInterest(_updateSupplyIndex(Cur, now, a), now, u, a)
       IN accrued.totalBorrows[a] >= accrued.userDebt[u][a]

\* Two borrowers of B, one of them with interest accrued and then partly
\* liquidated, and totalBorrows is still the sum of the two debts
C27_Witness ==
  /\ userDebt["u1"]["B"] \in 1..399
  /\ userDebt["admin"]["B"] > 300
  /\ totalBorrows["B"] = userDebt["u1"]["B"] + userDebt["admin"]["B"]
  /\ treasuryReserves["B"] > 0

\* ------------------------------------------------------------------------
\* The supply rate behind the index update
\* ------------------------------------------------------------------------
\* The supply rate _updateSupplyIndex computes for the asset
indexSupplyRate(L, tokenAddress) ==
  supplyRateU32(borrowRateOf(L, tokenAddress),
                calculateUtilization(L.totalBorrows[tokenAddress],
                                     L.totalCollateral[tokenAddress]),
                10000 - L.params.reserveFactor)

\* C28: when an asset has both deposits and borrows, the supply-index update
\* uses supplyRate = borrowRate x utilization x (10000 - reserveFactor) /
\* 10000 / 10000, computed exactly with no 32-bit wrap of the intermediate
\* product and equal to the rate getSupplyRate reports, and grows the index
\* by index x supplyRate x elapsedSeconds / (secondsPerYear x 10000)
C28_SupplyRateExact ==
  \A a \in Assets :
    (totalCollateral[a] > 0 /\ totalBorrows[a] > 0) =>
      /\ indexSupplyRate(Cur, a) = getSupplyRate(Cur, a)
      /\ \A dt \in TimeSteps :
           now + dt > supplyIndexLastUpdate[a] =>
             _updateSupplyIndex(Cur, now + dt, a).supplyIndex[a]
               = supplyIndex[a]
                 + ((supplyIndex[a] * getSupplyRate(Cur, a)
                       * ((now + dt - supplyIndexLastUpdate[a]) \div 1000))
                      \div (SECONDS_PER_YEAR * 10000))

\* The growth formula with the rate the update itself computes
C28_IndexGrowsByComputedRate ==
  \A a \in Assets :
    (totalCollateral[a] > 0 /\ totalBorrows[a] > 0) =>
      \A dt \in TimeSteps :
        now + dt > supplyIndexLastUpdate[a] =>
          _updateSupplyIndex(Cur, now + dt, a).supplyIndex[a]
            = supplyIndex[a]
              + ((supplyIndex[a] * indexSupplyRate(Cur, a)
                    * ((now + dt - supplyIndexLastUpdate[a]) \div 1000))
                   \div (SECONDS_PER_YEAR * 10000))

\* ------------------------------------------------------------------------
\* Stored collateral rewritten to its real value on every change
\* ------------------------------------------------------------------------
\* The user's real collateral once the asset's index has been brought to t
realCollateralAt(L, t, user, tokenAddress) ==
  actualCollateralOf(_updateSupplyIndex(L, t, tokenAddress), user, tokenAddress)

\* After the operation the stored collateral is the real collateral before it
\* moved by delta, and the user's index is the asset's current index
rewritten(L, r, t, user, tokenAddress, delta) ==
  /\ r.st.userCollateral[user][tokenAddress]
       = realCollateralAt(L, t, user, tokenAddress) + delta
  /\ r.st.userSupplyIndex[user][tokenAddress] = r.st.supplyIndex[tokenAddress]

\* Deposits and withdrawals rewrite the stored collateral and reset the index
depositsAndWithdrawalsRewrite ==
  /\ \A c \in DepositCalls :
       LET r == depositCollateral(Cur, now, c[1], c[2], c[3])
       IN r.ok => rewritten(Cur, r, now, c[1], c[2], c[3])
  /\ \A c \in IndexWithdrawCalls :
       LET r == withdrawCollateral(Cur, now, c[1], c[2], c[3])
       IN r.ok => rewritten(Cur, r, now, c[1], c[2], 0 - c[3])
  /\ \A c \in IndexWithdrawCalls :
       LET r == emergencyWithdraw(Cur, now, c[1], c[2], c[3])
       IN r.ok => rewritten(Cur, r, now, c[1], c[2], 0 - c[3])

\* C29: every operation that changes a user's collateral first rewrites the
\* stored collateral to its real value stored x currentIndex / userIndex and
\* resets the user's index to the current index; in particular a liquidation
\* lowers the borrower's real (index-adjusted) collateral by exactly the
\* amount paid to the liquidator
C29_CollateralRewrittenOnChange ==
  /\ depositsAndWithdrawalsRewrite
  /\ \A c \in IndexLiquidateCalls :
       LET r == liquidate(Cur, now, c[1], c[2], c[3], c[4], c[5])
       IN r.ok =>
            /\ rewritten(Cur, r, now, c[2], c[3], 0 - r.seized)
            /\ actualCollateralOf(r.st, c[2], c[3])
                 = realCollateralAt(Cur, now, c[2], c[3]) - r.seized

\* The part of the property that deposits and withdrawals satisfy
C29_DepositsAndWithdrawalsRewrite == depositsAndWithdrawalsRewrite

\* Offsets in milliseconds at which a position is touched after `now`
TouchSteps == {500, 1000, 1500, 2000}
WholeSecondSteps == {1000, 2000}

debtAccruedAt(L, t, user, tokenAddress) ==
  _accrueInterest(L, t, user, tokenAddress).userDebt[user][tokenAddress]

\* The debt after an accrual at t1 followed by one at t2, set against the debt
\* after the single accrual at t2, when the first accrual leaves the borrow
\* rate where it was
twoStepAgainstOneStep(steps, slack) ==
  \A user \in Users, tokenAddress \in Assets, d1 \in steps, d2 \in steps :
    LET L1 == _accrueInterest(Cur, now + d1, user, tokenAddress)
    IN (/\ Cur.userDebt[user][tokenAddress] > 0
        /\ borrowRateOf(L1, tokenAddress) = borrowRateOf(Cur, tokenAddress))
       => debtAccruedAt(L1, now + d1 + d2, user, tokenAddress) + slack
            >= debtAccruedAt(Cur, now + d1 + d2, user, tokenAddress)

\* C30: accruing a debt over an interval in two steps, with an accrual at any
\* intermediate time, never yields less debt than one accrual over the whole
\* interval at the same rate; touching a position at intervals shorter than
\* one second does not discard the interest for the elapsed time.
C30_TwoStepAccrualNotLess == twoStepAgainstOneStep(TouchSteps, 0)

\* What the accrual does guarantee: with the intermediate accrual a whole
\* number of seconds from both ends, the two steps lose at most one unit to
\* the rounding of each step's interest.
C30_WholeSecondStepsLoseAtMostOne == twoStepAgainstOneStep(WholeSecondSteps, 1)

\* ------------------------------------------------------------------------
\* totalCollateral against the users' collateral
\* ------------------------------------------------------------------------
RECURSIVE SumStoredCollateral(_, _, _)
SumStoredCollateral(L, tokenAddress, S) ==
  IF S = {} THEN 0
  ELSE LET u == CHOOSE x \in S : TRUE
       IN L.userCollateral[u][tokenAddress]
            + SumStoredCollateral(L, tokenAddress, S \ {u})

\* C31: for every asset, in every reachable state, totalCollateral is at
\* least the sum over all users of their stored collateral; so a withdrawal
\* within the caller's own index-adjusted balance never fails on the
\* totalCollateral subtraction
C31_TotalCollateralCoversStored ==
  /\ \A a \in Assets : totalCollateral[a] >= SumStoredCollateral(Cur, a, Callers)
  /\ \A u \in Callers, a \in Assets :
       LET L1 == _updateSupplyIndex(Cur, now, a)
       IN subOK(L1.totalCollateral[a], actualCollateralOf(L1, u, a))

\* What the ledger does keep: while an asset has earned no supply interest,
\* totalCollateral is exactly the sum of the stored collateral
C31_TotalIsSumBeforeInterest ==
  \A a \in Assets :
    supplyIndex[a] = InitialSupplyIndex
      => totalCollateral[a] = SumStoredCollateral(Cur, a, Callers)

\* ------------------------------------------------------------------------
\* The pool's token balance against what it owes
\* ------------------------------------------------------------------------
\* Every operation that moves tokens or changes a total, on one pool
PoolDepositCalls == {<<"u1", "A", 2000>>, <<"u2", "B", 2000>>}
PoolPriceCalls == {<<"A", 10>>, <<"A", 2>>, <<"B", 10>>}
PoolWithdrawCalls == {<<"u2", "B", 800>>}
PoolBorrowCalls == {<<"u1", "B", 600>>}
PoolRepayCalls == {<<"u1", "B", 1000>>}
PoolLiquidateCalls == {<<"u2", "u1", "A", "B", 1000>>}
PoolFlashCalls == {<<"u2", "u2", "B", 1200>>}
PoolRepayments == {1200, 1201}
PoolTreasuryCalls == {<<"admin", "B", 1>>}
DepositPool == DepositCollateralOf(PoolDepositCalls, MaxFlashSupply)
SetAssetPricePool == SetAssetPriceOf(PoolPriceCalls)
WithdrawPool == WithdrawCollateralOf(PoolWithdrawCalls)
BorrowPool == BorrowOf(PoolBorrowCalls)
RepayPool == RepayOf(PoolRepayCalls)
LiquidatePool == LiquidateOf(PoolLiquidateCalls)
FlashLoanStartPool == FlashLoanStartOf(PoolFlashCalls)
CallbackRepayPool == CallbackRepayOf(PoolRepayments)
TreasuryPool == WithdrawTreasuryReservesOf(PoolTreasuryCalls)

NextPool ==
  \/ AddSupportedAsset
  \/ SetAssetPricePool
  \/ DepositPool
  \/ WithdrawPool
  \/ BorrowPool
  \/ RepayPool
  \/ LiquidatePool
  \/ FlashLoanStartPool
  \/ CallbackRepayPool
  \/ FlashLoanEnd
  \/ TreasuryPool
  \/ Tick

SpecPool == Init /\ [][NextPool]_vars

\* C32: for every asset, after any sequence of successful operations, the
\* pool's token balance is at least (totalCollateral - totalBorrows) +
\* treasuryReserves; so paying out the whole treasury reserve never takes
\* tokens counted as liquidity available to users
C32_BalanceCoversLiquidityAndReserves ==
  ~frame.active =>
    /\ \A a \in Assets :
         tokenBalance[a] >= (totalCollateral[a] - totalBorrows[a]) + treasuryReserves[a]
    /\ \A a \in Assets :
         LET r == withdrawTreasuryReserves(Cur, Admin, a, treasuryReserves[a])
         IN r.ok => r.st.tokenBalance[a] >= availableLiquidity(r.st, a)

\* Interest and a flash-loan fee are both in the reserves, part of them has
\* been paid out, and the whole remainder can be paid out as well
C32_Witness ==
  /\ ~frame.active
  /\ treasuryReserves["B"] > 0
  /\ totalBorrows["B"] > 0
  /\ tokenBalance["B"] < totalCollateral["B"]
  /\ withdrawTreasuryReserves(Cur, Admin, "B", treasuryReserves["B"]).ok

\* ------------------------------------------------------------------------
\* The emergency withdrawal
\* ------------------------------------------------------------------------
\* A supplier without debt beside a borrower, with the pause switch
EmergencyBorrowCalls == {<<"u1", "B", 600>>}
EmergencyRepayCalls == {<<"u1", "B", 1000>>}
BorrowEmergency == BorrowOf(EmergencyBorrowCalls)
RepayEmergency == RepayOf(EmergencyRepayCalls)

NextEmergency ==
  \/ AddSupportedAsset
  \/ SetAssetPrice
  \/ DepositCollateral
  \/ EmergencyWithdraw
  \/ BorrowEmergency
  \/ RepayEmergency
  \/ Pause
  \/ Unpause
  \/ Tick

SpecEmergency == Init /\ [][NextEmergency]_vars

hasDebt(L, user) == \E a \in Assets : L.userDebt[user][a] > 0

\* An emergency withdrawal of `amount` that pays it out of the caller's
\* index-adjusted collateral and unlists the asset once nothing is left
emergencyPaysOut(L, t, caller, tokenAddress, amount) ==
  LET real == realCollateralAt(L, t, caller, tokenAddress)
      r == emergencyWithdraw(L, t, caller, tokenAddress, amount)
  IN /\ r.ok
     /\ r.st.tokenBalance[tokenAddress] = L.tokenBalance[tokenAddress] - amount
     /\ r.st.userCollateral[caller][tokenAddress] = real - amount
     /\ (real = amount => tokenAddress \notin r.st.userAssets[caller])

\* The amounts tried: one unit, half and the whole of the collateral
emergencyAmounts(real) == {1, real \div 2, real} \cap (1..real)

\* C33: emergencyWithdraw fails whenever the caller has debt > 0 in any
\* asset; for a caller with no debt it pays out any amount up to the
\* caller's index-adjusted collateral without consulting prices or the pause
\* flag, and removes the asset from the caller's list when the collateral
\* reaches zero
C33_EmergencyWithdraw ==
  \A c \in Callers, a \in Assets :
    LET real == realCollateralAt(Cur, now, c, a)
    IN IF hasDebt(Cur, c)
       THEN \A amount \in 0..real : ~emergencyWithdraw(Cur, now, c, a, amount).ok
       ELSE \A amount \in emergencyAmounts(real) : emergencyPaysOut(Cur, now, c, a, amount)

\* What the handler does guarantee: the same, for the amounts that
\* totalCollateral and the pool's token balance cover
C33_EmergencyWithdrawWhenCovered ==
  \A c \in Callers, a \in Assets :
    LET real == realCollateralAt(Cur, now, c, a)
    IN IF hasDebt(Cur, c)
       THEN \A amount \in 0..real : ~emergencyWithdraw(Cur, now, c, a, amount).ok
       ELSE \A amount \in emergencyAmounts(real) :
              (amount <= totalCollateral[a] /\ amount <= tokenBalance[a])
                => emergencyPaysOut(Cur, now, c, a, amount)

\* ------------------------------------------------------------------------
\* The value a liquidation pays for the value it repays
\* ------------------------------------------------------------------------
NextValue == LiquidationValuation

SpecValue == Init /\ [][NextValue]_vars

\* The debt value with the bonus on top, and the rounding allowed: each of
\* the two floors in the seized amount loses less than one unit of collateral
debtValueWithBonus == calc.debtValue + mulBP(calc.debtValue, calc.bonus)
valueRounding ==
  2 * ((calc.collateralPrice \div Pow10(calc.collateralDecimals)) + 1) + 2

valuesAgree ==
  /\ calc.collateralValue <= debtValueWithBonus + valueRounding
  /\ debtValueWithBonus <= calc.collateralValue + valueRounding

\* C34: in a successful liquidation the value of the collateral paid to the
\* liquidator, measured as the health computation measures value, equals the
\* value of the debt repaid x (1 + bonus / 10000), up to rounding, for every
\* pair of token decimal counts
C34_SeizedValueMatchesDebtValue ==
  calc.op = "liquidationValue" => valuesAgree

\* What the calculation does guarantee: the values agree when the two tokens
\* have the same number of decimals
C34_ValuesAgreeForEqualDecimals ==
  (calc.op = "liquidationValue" /\ calc.collateralDecimals = calc.debtDecimals)
    => valuesAgree

\* ------------------------------------------------------------------------
\* The flash loan's preconditions and its effect on the ledger
\* ------------------------------------------------------------------------
\* Loans within and beyond the liquidity of a pool with a borrower, and the
\* switch that disables them
LoanDepositCalls == {<<"u1", "A", 2000>>, <<"u2", "B", 2000>>}
LoanPriceCalls == {<<"A", 10>>, <<"B", 10>>}
LoanBorrowCalls == {<<"u1", "B", 600>>}
LoanFlashCalls == {<<"u2", "u2", "B", 1200>>, <<"u2", "u2", "B", 2000>>}
LoanRepayments == {1200, 1201, 2001}
DepositLoan == DepositCollateralOf(LoanDepositCalls, MaxFlashSupply)
SetAssetPriceLoan == SetAssetPriceOf(LoanPriceCalls)
BorrowLoan == BorrowOf(LoanBorrowCalls)
FlashLoanStartLoan == FlashLoanStartOf(LoanFlashCalls)
CallbackRepayLoan == CallbackRepayOf(LoanRepayments)

NextLoan ==
  \/ AddSupportedAsset
  \/ SetAssetPriceLoan
  \/ DepositLoan
  \/ BorrowLoan
  \/ SetFlashLoanEnabled
  \/ FlashLoanStartLoan
  \/ CallbackRepayLoan
  \/ FlashLoanEnd
  \/ Tick

SpecLoan == Init /\ [][NextLoan]_vars

\* The amounts a loan is asked for
LoanAmounts == {0, 1, 1200, 1400, 1401, 2000, 2001}

loanAllowed(L, tokenAddress, amount) ==
  /\ L.params.flashLoanEnabled
  /\ tokenAddress \in L.supportedAssets
  /\ amount > 0
  /\ amount <= L.totalCollateral[tokenAddress] - L.totalBorrows[tokenAddress]

\* C35: a flash loan succeeds only when flash loans are enabled, the asset
\* is supported and the positive amount is at most totalCollateral -
\* totalBorrows; a successful flash loan increases the asset's treasury
\* reserves by exactly floor(amount x flashLoanFee / 10000) and changes no
\* user position, totalCollateral, totalBorrows or supply index
C35_FlashLoanFrame ==
  /\ \A a \in Assets, amount \in LoanAmounts :
       flashLoanBegin(Cur, "u2", "u2", a, amount).ok => loanAllowed(Cur, a, amount)
  /\ lastFlash.op = "flashLoan" =>
       LET before == lastFlash.before
           a == lastFlash.token
       IN /\ loanAllowed(before, a, lastFlash.amount)
          /\ treasuryReserves =
               [before.treasuryReserves EXCEPT
                  ![a] = @ + ((lastFlash.amount * before.params.flashLoanFee) \div 10000)]
          /\ userCollateral = before.userCollateral
          /\ userDebt = before.userDebt
          /\ userSupplyIndex = before.userSupplyIndex
          /\ userLastUpdate = before.userLastUpdate
          /\ userAssets = before.userAssets
          /\ totalCollateral = before.totalCollateral
          /\ totalBorrows = before.totalBorrows
          /\ supplyIndex = before.supplyIndex

\* A loan of the whole liquidity of a pool with a borrower has succeeded and
\* left its fee, while a larger one is refused
C35_Witness ==
  /\ lastFlash.op = "flashLoan"
  /\ lastFlash.before.totalBorrows["B"] > 0
  /\ lastFlash.fee > 0
  /\ treasuryReserves["B"] > lastFlash.before.treasuryReserves["B"]
  /\ ~flashLoanBegin(Cur, "u2", "u2", "B", 1401).ok
  /\ flashLoanBegin(Cur, "u2", "u2", "B", 1400).ok

\* ------------------------------------------------------------------------
\* What a liquidation changes
\* ------------------------------------------------------------------------
\* The ledger as the liquidation finds it once it has updated the two
\* supply indices and accrued the borrower's debt
liquidationStart(L, t, borrower, collateralToken, debtToken) ==
  _accrueInterest(
    _updateSupplyIndex(_updateSupplyIndex(L, t, collateralToken), t, debtToken),
    t, borrower, debtToken)

FrameLiquidateCalls == {<<"u2", "u1", "A", "B", amount>> : amount \in {1, 100, 1000}}

RangeRateCalls ==
  {<<5000, 5000, 1, 1>>, <<0, 9500, 10000, 20000>>, <<5001, 5000, 1, 1>>,
   <<0, 4999, 1, 1>>, <<0, 9501, 1, 1>>, <<0, 5000, 0, 1>>, <<0, 5000, 10001, 1>>,
   <<0, 5000, 1, 0>>, <<0, 5000, 1, 20001>>}
RangeReserveFactors == {0, 5000, 5001}
RangeCloseFactors == {999, 1000, 10000, 10001}
RangeBonusValues == {0, 5000, 5001}
RangeFlashLoanFees == {0, 100, 101}
SetInterestRateParamsRange == SetInterestRateParamsOf(RangeRateCalls)
SetReserveFactorRange == SetReserveFactorOf(RangeReserveFactors)
SetCloseFactorRange == SetCloseFactorOf(RangeCloseFactors)
SetLiquidationBonusRangeRange == SetLiquidationBonusRangeOf(RangeBonusValues)
SetFlashLoanFeeRange == SetFlashLoanFeeOf(RangeFlashLoanFees)

NextRange ==
  \/ SetInterestRateParamsRange
  \/ SetReserveFactorRange
  \/ SetCloseFactorRange
  \/ SetLiquidationBonusRangeRange
  \/ SetFlashLoanFeeRange

SpecRange == Init /\ [][NextRange]_vars

parametersInRange(p) ==
  /\ p.baseRate <= 5000
  /\ p.optimalUtilization >= 5000 /\ p.optimalUtilization <= 9500
  /\ p.slope1 >= 1 /\ p.slope1 <= 10000
  /\ p.slope2 >= 1 /\ p.slope2 <= 20000
  /\ p.reserveFactor <= 5000
  /\ p.closeFactor >= 1000 /\ p.closeFactor <= 10000
  /\ p.liquidationBonusMin <= p.liquidationBonusMax
  /\ p.liquidationBonusMax <= 5000
  /\ p.flashLoanFee <= 100

\* The owner's calls of the five setters with the values above
setterCalls(L) ==
  {setInterestRateParams(L, owner, c[1], c[2], c[3], c[4]) : c \in RangeRateCalls}
    \cup {setReserveFactor(L, owner, v) : v \in RangeReserveFactors}
    \cup {setCloseFactor(L, owner, v) : v \in RangeCloseFactors}
    \cup {setLiquidationBonusRange(L, owner, v, w) : v \in RangeBonusValues, w \in RangeBonusValues}
    \cup {setFlashLoanFee(L, owner, v) : v \in RangeFlashLoanFees}

\* C37: every parameter setter rejects out-of-range values and leaves the
\* parameters unchanged, so after any sequence of admin calls: baseRate <=
\* 5000, optimalUtilization in [5000, 9500], slope1 in [1, 10000], slope2 in
\* [1, 20000], reserveFactor <= 5000, closeFactor in [1000, 10000],
\* bonusMin <= bonusMax <= 5000 and flashLoanFee <= 100
C37_ParametersStayInRange ==
  /\ parametersInRange(params)
  /\ \A r \in setterCalls(Cur) :
       IF r.ok THEN parametersInRange(r.st.params) ELSE r.st = Cur

\* Every parameter is at an end of its range, and the values just outside
\* are refused
C37_Witness ==
  /\ params.baseRate = 5000 /\ params.optimalUtilization = 5000
  /\ params.slope1 = 1 /\ params.slope2 = 1
  /\ params.reserveFactor = 5000 /\ params.closeFactor = 10000
  /\ params.liquidationBonusMin = 5000 /\ params.liquidationBonusMax = 5000
  /\ params.flashLoanFee = 100
  /\ ~setReserveFactor(Cur, owner, 5001).ok
  /\ ~setCloseFactor(Cur, owner, 10001).ok
  /\ ~setFlashLoanFee(Cur, owner, 101).ok
  /\ ~setLiquidationBonusRange(Cur, owner, 5000, 5001).ok
  /\ ~setInterestRateParams(Cur, owner, 5001, 5000, 1, 1).ok

\* ------------------------------------------------------------------------
\* Whose positions an operation changes
\* ------------------------------------------------------------------------
IsolationAmounts == {100, 1000}
IsolationLiquidateCalls ==
  {<<liquidator, borrower, "A", "B", 1000>> :
     liquidator \in {"u1", "u2"}, borrower \in {"u1", "admin"}}

\* The successful outcomes of the five operations a user makes on its own
\* position
ownOutcomes(L, t, caller) ==
  {r \in UNION {{depositCollateral(L, t, caller, a, amount),
                 withdrawCollateral(L, t, caller, a, amount),
                 emergencyWithdraw(L, t, caller, a, amount),
                 borrow(L, t, caller, a, amount),
                 repay(L, t, caller, a, amount)} :
                  a \in Assets, amount \in IsolationAmounts} : r.ok}

\* The four per-user records of `user` are the same in L and M
samePosition(L, M, user) ==
  /\ M.userCollateral[user] = L.userCollateral[user]
  /\ M.userDebt[user] = L.userDebt[user]
  /\ M.userSupplyIndex[user] = L.userSupplyIndex[user]
  /\ M.userLastUpdate[user] = L.userLastUpdate[user]

othersUntouched ==
  \A caller \in Callers : \A r \in ownOutcomes(Cur, now, caller) :
    \A u \in Callers \ {caller} : samePosition(Cur, r.st, u)

\* A liquidation changes, of all per-user records, at most the borrower's
\* debt in the debt token, the borrower's collateral in the collateral
\* token and, if stampAllowed, the borrower's timestamp for the debt token
liquidationTouches(c, stampAllowed) ==
  LET borrower == c[2]
      r == liquidate(Cur, now, c[1], borrower, c[3], c[4], c[5])
  IN r.ok =>
       /\ \A u \in Callers \ {borrower} : samePosition(Cur, r.st, u)
       /\ r.st.userCollateral[borrower] =
            [Cur.userCollateral[borrower] EXCEPT ![c[3]] = r.st.userCollateral[borrower][c[3]]]
       /\ r.st.userDebt[borrower] =
            [Cur.userDebt[borrower] EXCEPT ![c[4]] = r.st.userDebt[borrower][c[4]]]
       /\ r.st.userSupplyIndex[borrower] = Cur.userSupplyIndex[borrower]
       /\ IF stampAllowed
          THEN r.st.userLastUpdate[borrower] =
                 [Cur.userLastUpdate[borrower] EXCEPT ![c[4]] = r.st.userLastUpdate[borrower][c[4]]]
          ELSE r.st.userLastUpdate[borrower] = Cur.userLastUpdate[borrower]

liquidatorUntouched(c) ==
  LET r == liquidate(Cur, now, c[1], c[2], c[3], c[4], c[5])
  IN r.ok => samePosition(Cur, r.st, c[1])

\* C38: an operation called by one user changes the stored collateral,
\* debt, supply-index snapshot and last-update timestamp of no other user,
\* except liquidate, which changes only the named borrower's debt in the
\* debt token and collateral in the collateral token; a liquidation never
\* changes the liquidator's own ledger position
C38_OthersUntouched ==
  /\ othersUntouched
  /\ \A c \in IsolationLiquidateCalls :
       liquidationTouches(c, FALSE) /\ liquidatorUntouched(c)

\* C38, as the code has it: liquidate also moves the borrower's last-update
\* timestamp for the debt token, with the accrual it starts with, and it
\* leaves the liquidator's position alone when the liquidator is not the
\* borrower
C38_OthersUntouchedButForAccrualStamp ==
  /\ othersUntouched
  /\ \A c \in IsolationLiquidateCalls :
       /\ liquidationTouches(c, TRUE)
       /\ c[1] # c[2] => liquidatorUntouched(c)

\* Interest is due on the debt of a borrower whom another user can
\* liquidate, while a third user owes the same token
C38_Witness ==
  /\ userDebt["admin"]["B"] > 0
  /\ userLastUpdate["u1"]["B"] < now
  /\ LET r == liquidate(Cur, now, "u2", "u1", "A", "B", 1000)
     IN /\ r.ok
        /\ r.st.userDebt["u1"]["B"] # userDebt["u1"]["B"]
        /\ r.st.userCollateral["u1"]["A"] < userCollateral["u1"]["A"]
        /\ r.st.userLastUpdate["u1"]["B"] = now

\* ------------------------------------------------------------------------
\* What changes the treasury reserves
\* ------------------------------------------------------------------------
\* One accrual of user's debt: interest I > 0 puts floor(I x reserveFactor /
\* 10000) into the reserves and I into totalBorrows; no interest, no change
accrualCredits(L, t, user, tokenAddress) ==
  LET M == _accrueInterest(L, t, user, tokenAddress)
      I == M.userDebt[user][tokenAddress] - L.userDebt[user][tokenAddress]
  IN /\ I >= 0
     /\ M.treasuryReserves =
          [L.treasuryReserves EXCEPT
             ![tokenAddress] = @ + ((I * L.params.reserveFactor) \div 10000)]
     /\ M.totalBorrows = [L.totalBorrows EXCEPT ![tokenAddress] = @ + I]

\* A step that changes the reserves is the end of a flash loan crediting its
\* fee, a withdrawal paid out of the pool's tokens, or an operation whose
\* accrual credits the share of the interest
reservesStep ==
  treasuryReserves' # treasuryReserves =>
    \/ /\ frame.active /\ ~frame'.active
       /\ treasuryReserves' =
            [treasuryReserves EXCEPT ![frame.token] = @ + frame.fee]
    \/ \E a \in Assets :
         LET amount == treasuryReserves[a] - treasuryReserves'[a]
         IN /\ amount > 0
            /\ treasuryReserves' = [treasuryReserves EXCEPT ![a] = @ - amount]
            /\ tokenBalance' = [tokenBalance EXCEPT ![a] = @ - amount]
            /\ withdrawTreasuryReserves(Cur, owner, a, amount).ok
    \/ \E u \in Callers, a \in Assets :
         /\ userDebt'[u][a] # userDebt[u][a] \/ userLastUpdate'[u][a] = now
         /\ treasuryReserves' = _accrueInterest(Cur, now, u, a).treasuryReserves

\* C39: each debt-interest accrual that adds interest I > 0 to a user's debt
\* adds floor(I x reserveFactor / 10000) to the asset's treasury reserves
\* and I to the asset's totalBorrows; treasury reserves change in no other
\* way except flash-loan fees and owner withdrawals
C39_ReservesFromInterestFeesAndWithdrawals ==
  /\ [](\A u \in Callers, a \in Assets : accrualCredits(Cur, now, u, a))
  /\ [][reservesStep]_vars

\* Interest is due on a debt, its share for the reserves is positive, and
\* the reserves already hold a flash-loan fee
C39_Witness ==
  /\ lastFlash.op = "flashLoan" /\ lastFlash.fee > 0
  /\ treasuryReserves["B"] > 0
  /\ LET M == _accrueInterest(Cur, now, "u1", "B")
     IN /\ M.userDebt["u1"]["B"] > userDebt["u1"]["B"]
        /\ M.treasuryReserves["B"] > treasuryReserves["B"]
        /\ M.totalBorrows["B"] > totalBorrows["B"]

\* ------------------------------------------------------------------------
\* Prices of bin ids below the shift constant
\* ------------------------------------------------------------------------
NextBin == PriceFromId

SpecBin == Init /\ [][NextBin]_vars

\* The fixed-point product of the two prices, and 1.0 up to rounding
reciprocalProduct == rightShift(calc.price.value * calc.mirrored.value, BIN_SCALE_OFFSET)
nearOne(v) == v >= binOne - 2 /\ v <= binOne + 2

\* C40: for a bin id below the shift constant (a negative exponent),
\* getPriceFromId returns the reciprocal, in fixed point, of the price for
\* the mirrored positive exponent: the result is non-zero and power(base,
\* -n) x power(base, n) is 1.0 up to rounding, with no intermediate product
\* or shift wrapping the word
C40_NegativeExponentIsReciprocal ==
  (calc.op = "getPriceFromId" /\ calc.id < BIN_REAL_ID_SHIFT) =>
    /\ calc.price.ok
    /\ calc.price.value # 0
    /\ ~calc.price.wrapped
    /\ nearOne(reciprocalProduct)

\* What the function does return: exactly 1.0 for the id equal to the shift
\* constant, and 0 or a failed division for every id below it
C40_ZeroBelowTheShift ==
  calc.op = "getPriceFromId" =>
    /\ calc.id = BIN_REAL_ID_SHIFT
         => (calc.price.ok /\ calc.price.value = binOne /\ ~calc.price.wrapped)
    /\ calc.id < BIN_REAL_ID_SHIFT => (~calc.price.ok \/ calc.price.value = 0)

=============================================================================
